---- MODULE Spec2Model ----
(***************************************************************************)
(* A model of the data-acquisition scripts of the finance-agent repository *)
(* and of their polite-fetch loops.  Each script is an independent process *)
(* that runs once; the variable script says which one a behaviour follows, *)
(* and the variables of the other scripts stay at their initial values.    *)
(*                                                                         *)
(*   "sa"   SEC Fillings/nvda_ko_earnings_call_fetch.py: _rate_limited_get *)
(*          and the call sites of main (time in seconds)                   *)
(*   "av"   market/OHLCV and market/macro: _request_with_retries and the   *)
(*          fetch_* functions that validate its payload                    *)
(*   "fng"  market/fng/fng_fetch.py: _http_get_json and fetch_all_fng      *)
(*   "earn" market/earnings: fetch_quarterly_earnings                      *)
(***************************************************************************)
EXTENDS Integers, Sequences, FiniteSets, TLC

VARIABLES
    script,             \* which script this run is
    \* ---- Seeking Alpha script ("sa")
    now,                \* time.monotonic(), in seconds
    LAST_REQUEST_TIME,  \* the module global _LAST_REQUEST_TIME
    sa_pc,              \* "idle", "check", "get", "returned", "raised"
    sa_site,            \* the call site of the current call: "list" or "transcript"
    sa_attempt,         \* the loop variable attempt of _rate_limited_get
    sa_calls,           \* calls of _rate_limited_get made so far
    sa_gets,            \* HTTP GETs issued by the current call
    sa_prevEnd,         \* completion time of the previous HTTP GET (None: no GET yet)
    sa_gap,             \* time between the previous GET's completion and the GET in flight
    sa_delays,          \* the backoff delays slept by the current call
    sa_firstCause,      \* the exception raised by the call's first failed attempt
    sa_lastCause,       \* the exception raised by the call's latest failed attempt
    sa_err,             \* the exception the call raised to its caller
    \* ---- Fear & Greed script ("fng")
    fng_pc,             \* "idle", "request", "returned", "raised", "valid"
    fng_retries,        \* the argument retries of _http_get_json
    fng_backoff,        \* the argument backoff, a fraction <<numerator, denominator>>
    fng_attempt,        \* the loop variable attempt (from 0)
    fng_gets,           \* urlopen calls made by the current call
    fng_delays,         \* the delays slept, each a fraction <<numerator, denominator>>
    fng_last_err,       \* the local last_err
    fng_firstErr,       \* the exception of the call's first failed attempt
    fng_lastOutcome,    \* what the latest urlopen/read/parse produced
    fng_data,           \* the value _http_get_json returned
    fng_err,            \* the exception raised to main: [type, cause]
    fng_start,          \* main's start_date, in days since 1970-01-01
    fng_end,            \* main's end_date, in days since 1970-01-01
    fng_records,        \* data.get("data", []): the records of the payload
    fng_rows,           \* the rows filter_and_normalize_records returned
    \* ---- Alpha Vantage scripts ("av")
    av_pc,              \* "idle", "request", "payload", "valid", "raised"
    av_fn,              \* the fetch_* function running
    av_max_retries,     \* the argument max_retries of _request_with_retries
    av_attempt,         \* the loop variable attempt (from 1)
    av_backoff,         \* the local backoff_seconds
    av_gets,            \* requests.get calls made by the current call
    av_delays,          \* the delays slept, in seconds
    av_firstNote,       \* note_msg of the call's first throttled response
    av_resp,            \* the latest response
    av_payload,         \* the payload _request_with_retries returned
    av_series,          \* payload[key]: the entries of the series
    av_rows,            \* the rows the fetch_* function returned
    av_err,             \* the exception raised to main: [type, kind, msg, keys]
    \* ---- Alpha Vantage earnings script ("earn")
    earn_pc,            \* "idle", "payload", "valid", "raised"
    earn_payload,       \* the parsed body: a sequence of [k, v], in the body's key order
    earn_err,           \* the exception raised to main: [type, kind, msg, keys]
    \* ---- Seeking Alpha: list_earnings_call_transcripts_for_ticker ("list")
    list_pc,            \* "idle", "loop", "returned", "raised"
    list_max_pages,     \* the argument max_pages
    list_page,          \* the loop variable page: the page the loop requests next
    list_articles,      \* soup.find_all("article") of the page requested last
    list_records,       \* records: the dates of the transcripts kept so far
    \* ---- X: fetch_user_tweets ("tweets")
    tw_pc,              \* "idle", "loop", "returned"
    tw_max_pages,       \* the argument max_pages
    tw_page,            \* the loop variable page
    tw_cursor,          \* the loop variable cursor ("None" before the first response)
    tw_calls,           \* calls of get_user_tweets_page so far
    tw_sent,            \* the cursor parameter of the URL requested last
    tw_next,            \* next_cursor_str of the response received last
    tw_all,             \* len(all_tweets)
    tw_failed,          \* whether a page raised an exception
    \* ---- X: batch_fetch_tweets_parallel ("pool")
    pool_pc,            \* "idle", "pool" (inside the with block), "returned", "raised"
    pool_users,         \* the argument user_list
    pool_workers,       \* the argument max_workers
    pool_task,          \* per work item: "unsubmitted", "queued", "running", "writing",
                        \* "True", "False" (the result of its future)
    pool_runs,          \* per work item: calls of process_single_user made for it
    pool_file,          \* per work item: the file it opened for writing ("none": none)
    pool_collected,     \* the work items as_completed has yielded
    success_count,      \* the local success_count
    fail_count,         \* the local fail_count
    \* ---- the main functions that loop over entities ("batch")
    batch_pc,           \* "idle", "loop", "returned", "raised", "exit" (SystemExit(message))
    batch_main,         \* the script whose main runs
    batch_key,          \* API_KEY of fred_data_fetch.py, as a sequence of pieces
    batch_plan,         \* the calls main makes, entity by entity, in order
    batch_idx,          \* the entity main is at
    batch_step,         \* the call of that entity main is at
    batch_alt,          \* whether main is in the except block of that entity
    batch_attempted,    \* the entities a call was made for
    batch_failed,       \* the entities a call raised for
    all_ok,             \* the local all_ok of the earnings main
    batch_exit,         \* the exit code of the process (None: still running)
    batch_requests,     \* fetch calls made
    batch_files,        \* files written
    batch_gap,          \* seconds main slept since its last request (None: no request yet)
    batch_minGap,       \* least sleep between two requests in a row (None: fewer than two)
    \* ---- the CSV writers write_csv, write_macro_csv, save_csv ("csv")
    csv_pc,             \* "idle", "called", "rows" (the header is written), "closed", "read"
    csv_writer,         \* the function running
    csv_rows,           \* the argument rows
    csv_i,              \* the rows of the argument written so far
    csv_out,            \* the lines of the file, each one a sequence of cells
    csv_read,           \* the rows csv.DictReader gives back from the file
    \* ---- the output files: one path, written again and again ("write")
    wr_pc,              \* "idle", "open" (the file is open for writing)
    wr_writer,          \* the function that writes the path
    wr_records,         \* the record set of the write in progress or done last
    wr_done,            \* whether the write made last went through
    wr_file,            \* the file at the path: [exists, content]
    wr_count,           \* writes asked for so far
    \* ---- Seeking Alpha: _rate_limited_get called by two threads ("rate")
    rl_now,             \* time.monotonic(), in seconds
    rl_marker,          \* the module global _LAST_REQUEST_TIME
    rl_pc,              \* per thread: "idle", "top", "sleep", "get", "backoff", "returned", "raised"
    rl_attempt,         \* per thread: the loop variable attempt
    rl_wake,            \* per thread: the time its time.sleep ends
    rl_lastIssue,       \* the time the latest HTTP GET was issued (None: no GET yet)
    rl_gap,             \* the time between the issue of the latest GET and of the one before
    \* ---- fetch_estimates
    est_pc,             \* "idle", "called", "payload", "parsed", "valid", "raised"
    est_payload,        \* the parsed body: the values of its three known keys
    est_rows,           \* eps_rows, rev_rows, trending_rows
    est_err,            \* "none", the exception of the request, or "unexpected"
    \* ---- process_single_user, after fetch_user_tweets
    ps_result,          \* what process_single_user returns: "none" (not yet), "True", "False"
    ps_file,            \* len(tweets) of the file save_tweets wrote (None: no file)
    \* ---- the OHLCV main: all_records and the combined file
    all_records,        \* the assets whose records all_records holds, in order
    batch_fetches,      \* the fetch calls of the OHLCV main: [asset, outcome]
    batch_combined      \* the combined file: [written, sources]

savars == <<now, LAST_REQUEST_TIME, sa_pc, sa_site, sa_attempt, sa_calls, sa_gets,
            sa_prevEnd, sa_gap, sa_delays, sa_firstCause, sa_lastCause, sa_err>>

fngvars == <<fng_pc, fng_retries, fng_backoff, fng_attempt, fng_gets, fng_delays,
             fng_last_err, fng_firstErr, fng_lastOutcome, fng_data, fng_err,
             fng_start, fng_end, fng_records, fng_rows>>

avvars == <<av_pc, av_fn, av_max_retries, av_attempt, av_backoff, av_gets, av_delays,
            av_firstNote, av_resp, av_payload, av_series, av_rows, av_err>>

earnvars == <<earn_pc, earn_payload, earn_err>>

listvars == <<list_pc, list_max_pages, list_page, list_articles, list_records>>

tweetvars == <<tw_pc, tw_max_pages, tw_page, tw_cursor, tw_calls, tw_sent, tw_next, tw_all,
               tw_failed>>

poolvars == <<pool_pc, pool_users, pool_workers, pool_task, pool_runs, pool_file,
              pool_collected, success_count, fail_count>>

batchvars == <<batch_pc, batch_main, batch_key, batch_plan, batch_idx, batch_step, batch_alt,
               batch_attempted, batch_failed, all_ok, batch_exit, batch_requests,
               batch_files, batch_gap, batch_minGap>>

csvvars == <<csv_pc, csv_writer, csv_rows, csv_i, csv_out, csv_read>>

writevars == <<wr_pc, wr_writer, wr_records, wr_done, wr_file, wr_count>>

ratevars == <<rl_now, rl_marker, rl_pc, rl_attempt, rl_wake, rl_lastIssue, rl_gap>>

estvars == <<est_pc, est_payload, est_rows, est_err>>

procvars == <<ps_result, ps_file>>

goldvars == <<all_records, batch_fetches, batch_combined>>

vars == <<script, savars, fngvars, avvars, earnvars, listvars, tweetvars, poolvars,
          batchvars, csvvars,
          writevars,
          ratevars,
          estvars,
          procvars,
          goldvars>>

None == 0 - 1

(***************************************************************************)
(* Bounds of the model.                                                    *)
(***************************************************************************)
MaxCalls == 4       \* calls of _rate_limited_get in one run
MaxDur == 1         \* longest duration of one HTTP GET, in seconds
MaxStart == 3       \* largest value of the monotonic clock when the script starts
MaxPause == 1       \* longest time the caller spends between two calls besides its sleep

Causes == {"ConnectionError", "HTTPError"}

Min(a, b) == IF a <= b THEN a ELSE b

RECURSIVE Pow(_, _)
Pow(b, e) == IF e = 0 THEN 1 ELSE b * Pow(b, e - 1)

(***************************************************************************)
(* Dates.  A dt.date is <<year, month, day>>; a "YYYY-MM-DD" string is the  *)
(* sequence of its eight digits (the hyphens sit at fixed places), and the *)
(* empty string is <<>>.                                                   *)
(***************************************************************************)
MaxEntries == 3     \* most entries of a series, or records of a payload

\* d1 < d2 and d1 <= d2 on dt.date
DateLt(a, b) ==
    \/ a[1] < b[1]
    \/ a[1] = b[1] /\ a[2] < b[2]
    \/ a[1] = b[1] /\ a[2] = b[2] /\ a[3] < b[3]
DateLeq(a, b) == a = b \/ DateLt(a, b)

IsLeap(y) == (y % 4 = 0 /\ y % 100 # 0) \/ y % 400 = 0
DaysInMonth(y, m) ==
    IF m = 2 THEN (IF IsLeap(y) THEN 29 ELSE 28)
    ELSE IF m \in {4, 6, 9, 11} THEN 30 ELSE 31

\* dt.date.fromisoformat(s): the date a string denotes, and whether it denotes
\* one (fromisoformat raises ValueError when it does not).
StrToDate(s) ==
    <<s[1] * 1000 + s[2] * 100 + s[3] * 10 + s[4], s[5] * 10 + s[6], s[7] * 10 + s[8]>>
IsIsoDate(s) ==
    /\ Len(s) = 8
    /\ StrToDate(s)[1] >= 1
    /\ StrToDate(s)[2] \in 1..12
    /\ StrToDate(s)[3] \in 1..DaysInMonth(StrToDate(s)[1], StrToDate(s)[2])

\* day.isoformat()
isoformat(d) ==
    <<d[1] \div 1000, (d[1] \div 100) % 10, (d[1] \div 10) % 10, d[1] % 10,
      d[2] \div 10, d[2] % 10, d[3] \div 10, d[3] % 10>>

\* a < b and a <= b on str: the first differing character decides, a proper
\* prefix is smaller.
StrLt(a, b) ==
    \/ \E i \in 1..Min(Len(a), Len(b)) :
          a[i] < b[i] /\ \A j \in 1..(i - 1) : a[j] = b[j]
    \/ Len(a) < Len(b) /\ \A j \in 1..Len(a) : a[j] = b[j]
StrLeq(a, b) == a = b \/ StrLt(a, b)

\* dt.datetime.utcfromtimestamp(ts_seconds).date(), for ts_seconds >= 0
CivilFromDays(z) ==
    LET n == z + 719468
        era == n \div 146097
        doe == n - era * 146097
        yoe == (doe - doe \div 1460 + doe \div 36524 - doe \div 146096) \div 365
        doy == doe - (365 * yoe + yoe \div 4 - yoe \div 100)
        mp == (5 * doy + 2) \div 153
        d == doy - (153 * mp + 2) \div 5 + 1
        m == IF mp < 10 THEN mp + 3 ELSE mp - 9
        y == yoe + era * 400 + (IF m <= 2 THEN 1 ELSE 0)
    IN <<y, m, d>>
to_utc_date_from_unix_seconds(ts) == CivilFromDays(ts \div 86400)

\* rows.sort(key=lambda r: r["date"]): a stable sort, ascending, on the date
\* strings.
InsertByDate(sorted, x) ==
    LET p == Cardinality({i \in 1..Len(sorted) : StrLeq(sorted[i].date, x.date)})
    IN SubSeq(sorted, 1, p) \o <<x>> \o SubSeq(sorted, p + 1, Len(sorted))
SortByDate(seq) ==
    LET upto[i \in 0..Len(seq)] ==
            IF i = 0 THEN <<>> ELSE InsertByDate(upto[i - 1], seq[i])
    IN upto[Len(seq)]

\* The date strings a payload is built from: the last day before the window, its
\* first and last day, the first day after it, a day no calendar has, and "".
DateStrs ==
    {<<2, 0, 2, 3, 1, 2, 3, 1>>, <<2, 0, 2, 4, 0, 1, 0, 1>>, <<2, 0, 2, 5, 1, 0, 3, 1>>,
     <<2, 0, 2, 5, 1, 1, 0, 1>>, <<2, 0, 2, 4, 0, 2, 3, 0>>, <<>>}

\* The values of an entry: a number, a string float() rejects, and no value.
EntryValues == {"1.5", ".", "absent"}

SeqsUpTo(S, n) == UNION {[1..k -> S] : k \in 0..n}

(***************************************************************************)
(* Seeking Alpha: _rate_limited_get                                        *)
(***************************************************************************)
MIN_SECONDS_BETWEEN_REQUESTS == 2
MAX_RETRIES == 3
BACKOFF_FACTOR == 2
NumTickers == 2     \* len(TICKERS)

\* wait_for = MIN_SECONDS_BETWEEN_REQUESTS - (now - _LAST_REQUEST_TIME)
WaitFor(t, last) == MIN_SECONDS_BETWEEN_REQUESTS - (t - last)

\* backoff_seconds = BACKOFF_FACTOR * (2 ** (attempt - 1))
SABackoff(attempt) == BACKOFF_FACTOR * Pow(2, attempt - 1)

\* What the except branch leaves in _LAST_REQUEST_TIME: it does not assign it.
MarkerAfterFailure_Stamped(last, t) == t
MarkerAfterFailure(last, t) == last

SAIdle ==
    /\ now = 0
    /\ LAST_REQUEST_TIME = 0
    /\ sa_pc = "idle"
    /\ sa_site = "list"
    /\ sa_attempt = 0
    /\ sa_calls = 0
    /\ sa_gets = 0
    /\ sa_prevEnd = None
    /\ sa_gap = None
    /\ sa_delays = <<>>
    /\ sa_firstCause = "none"
    /\ sa_lastCause = "none"
    /\ sa_err = "none"

SAInit ==
    /\ script = "sa"
    /\ now \in 0..MaxStart
    /\ LAST_REQUEST_TIME = 0
    /\ sa_pc = "idle"
    /\ sa_site = "list"
    /\ sa_attempt = 0
    /\ sa_calls = 0
    /\ sa_gets = 0
    /\ sa_prevEnd = None
    /\ sa_gap = None
    /\ sa_delays = <<>>
    /\ sa_firstCause = "none"
    /\ sa_lastCause = "none"
    /\ sa_err = "none"

\* main calls _rate_limited_get: through _get_soup for a listing page, or through
\* fetch_transcript_text for a transcript.  The listing of every ticker (at least
\* one page each) precedes the first transcript, and no listing follows one.
SA_Call(site) ==
    /\ script = "sa"
    /\ sa_pc = "idle"
    /\ sa_calls < MaxCalls
    /\ sa_site = "transcript" => site = "transcript"
    /\ site = "transcript" => sa_calls >= NumTickers
    /\ sa_pc' = "check"
    /\ sa_site' = site
    /\ sa_attempt' = 1
    /\ sa_calls' = sa_calls + 1
    /\ sa_gets' = 0
    /\ sa_delays' = <<>>
    /\ sa_firstCause' = "none"
    /\ sa_lastCause' = "none"
    /\ sa_err' = "none"
    /\ UNCHANGED <<script, goldvars, procvars, estvars, ratevars, writevars, csvvars, batchvars, poolvars, tweetvars, listvars, fngvars, avvars, earnvars, now, LAST_REQUEST_TIME, sa_prevEnd, sa_gap>>

\* The top of the loop body: the rate-limit wait, then SESSION.get is issued.
SA_RateLimit ==
    /\ script = "sa"
    /\ sa_pc = "check"
    /\ LET wait_for == WaitFor(now, LAST_REQUEST_TIME)
           issued == IF wait_for > 0 THEN now + wait_for ELSE now
       IN /\ now' = issued
          /\ sa_gap' = IF sa_prevEnd = None THEN None ELSE issued - sa_prevEnd
    /\ sa_gets' = sa_gets + 1
    /\ sa_pc' = "get"
    /\ UNCHANGED <<script, goldvars, procvars, estvars, ratevars, writevars, csvvars, batchvars, poolvars, tweetvars, listvars, fngvars, avvars, earnvars, LAST_REQUEST_TIME, sa_site, sa_attempt, sa_calls, sa_prevEnd,
                   sa_delays, sa_firstCause, sa_lastCause, sa_err>>

\* The GET returns a 2xx response after dur seconds: the marker is stamped and the
\* response returned.
SA_GetOk(dur) ==
    /\ script = "sa"
    /\ sa_pc = "get"
    /\ now' = now + dur
    /\ LAST_REQUEST_TIME' = now + dur
    /\ sa_prevEnd' = now + dur
    /\ sa_pc' = "returned"
    /\ UNCHANGED <<script, goldvars, procvars, estvars, ratevars, writevars, csvvars, batchvars, poolvars, tweetvars, listvars, fngvars, avvars, earnvars, sa_site, sa_attempt, sa_calls, sa_gets, sa_gap, sa_delays,
                   sa_firstCause, sa_lastCause, sa_err>>

\* The GET raises a RequestException after dur seconds (a network error, or
\* raise_for_status on a non-2xx status): re-raised on the last attempt, otherwise
\* the backoff sleep and the next attempt.
SA_GetFail(dur, cause) ==
    /\ script = "sa"
    /\ sa_pc = "get"
    /\ sa_prevEnd' = now + dur
    /\ LAST_REQUEST_TIME' = MarkerAfterFailure(LAST_REQUEST_TIME, now + dur)
    /\ sa_lastCause' = cause
    /\ sa_firstCause' = IF sa_firstCause = "none" THEN cause ELSE sa_firstCause
    /\ IF sa_attempt = MAX_RETRIES
       THEN /\ now' = now + dur
            /\ sa_pc' = "raised"
            /\ sa_err' = cause
            /\ UNCHANGED <<sa_attempt, sa_delays>>
       ELSE /\ now' = now + dur + SABackoff(sa_attempt)
            /\ sa_delays' = Append(sa_delays, SABackoff(sa_attempt))
            /\ sa_attempt' = sa_attempt + 1
            /\ sa_pc' = "check"
            /\ UNCHANGED sa_err
    /\ UNCHANGED <<script, goldvars, procvars, estvars, ratevars, writevars, csvvars, batchvars, poolvars, tweetvars, listvars, fngvars, avvars, earnvars, sa_site, sa_calls, sa_gets, sa_gap>>

\* The caller after a response: the listing loop sleeps 1.0 s before the next page
\* or breaks without sleeping; the transcript loop writes the file and sleeps 1.0 s.
SA_Resume(sleep, pause) ==
    /\ script = "sa"
    /\ sa_pc = "returned"
    /\ sa_site = "transcript" => sleep = 1
    /\ now' = now + sleep + pause
    /\ sa_pc' = "idle"
    /\ UNCHANGED <<script, goldvars, procvars, estvars, ratevars, writevars, csvvars, batchvars, poolvars, tweetvars, listvars, fngvars, avvars, earnvars, LAST_REQUEST_TIME, sa_site, sa_attempt, sa_calls, sa_gets,
                   sa_prevEnd, sa_gap, sa_delays, sa_firstCause, sa_lastCause, sa_err>>

\* The caller after an exception: main catches it around fetch_transcript_text and
\* continues with the next row at once; around the listing nothing catches it and
\* the process ends.
SA_Caught ==
    /\ script = "sa"
    /\ sa_pc = "raised"
    /\ sa_site = "transcript"
    /\ sa_pc' = "idle"
    /\ UNCHANGED <<script, goldvars, procvars, estvars, ratevars, writevars, csvvars, batchvars, poolvars, tweetvars, listvars, fngvars, avvars, earnvars, now, LAST_REQUEST_TIME, sa_site, sa_attempt, sa_calls, sa_gets,
                   sa_prevEnd, sa_gap, sa_delays, sa_firstCause, sa_lastCause, sa_err>>

SANext ==
    \/ \E site \in {"list", "transcript"} : SA_Call(site)
    \/ SA_RateLimit
    \/ \E dur \in 0..MaxDur : SA_GetOk(dur)
    \/ \E dur \in 0..MaxDur, cause \in Causes : SA_GetFail(dur, cause)
    \/ \E sleep \in {0, 1}, pause \in 0..MaxPause : SA_Resume(sleep, pause)
    \/ SA_Caught

(***************************************************************************)
(* Fear & Greed: _http_get_json and fetch_all_fng                          *)
(***************************************************************************)
MaxRetriesFNG == 3  \* largest argument retries tried (fetch_all_fng passes 3)

\* The argument backoff: the default 1.5 and the 1.6 fetch_all_fng passes.
FNGBackoffs == {<<3, 2>>, <<8, 5>>}

\* The exceptions the except clause of _http_get_json names, and one it does not
\* (raw.decode("utf-8") on a body that is not UTF-8).
FNGCaught == {"HTTPError", "URLError", "TimeoutError", "JSONDecodeError"}
FNGUncaught == {"UnicodeDecodeError"}
\* What json.loads can return.
FNGShapes == {"dict_with_data", "dict_without_data", "not_dict"}
FNGOutcomes == FNGCaught \cup FNGUncaught \cup FNGShapes

\* sleep_seconds = backoff ** attempt, as a fraction
FNGSleep(backoff, attempt) == <<Pow(backoff[1], attempt), Pow(backoff[2], attempt)>>

\* last_err = e
FNGLastErr_KeepFirst(last_err, e) == IF last_err = "none" THEN e ELSE last_err
FNGLastErr(last_err, e) == e

\* if attempt < retries - 1: sleep and go on; else: break
FNGGoesOn(attempt, retries) == attempt < retries - 1

\* if not isinstance(data, dict) or "data" not in data: raise ValueError
FNGShapeOk_AnyDict(data) == data \in {"dict_with_data", "dict_without_data"}
FNGShapeOk(data) == data = "dict_with_data"

NoErr == [type |-> "none", cause |-> "none"]

FNGIdle ==
    /\ fng_pc = "idle"
    /\ fng_retries = 0
    /\ fng_backoff = <<1, 1>>
    /\ fng_attempt = 0
    /\ fng_gets = 0
    /\ fng_delays = <<>>
    /\ fng_last_err = "none"
    /\ fng_firstErr = "none"
    /\ fng_lastOutcome = "none"
    /\ fng_data = "none"
    /\ fng_err = NoErr
    /\ fng_start = <<0, 0, 0>>
    /\ fng_end = <<0, 0, 0>>
    /\ fng_records = <<>>
    /\ fng_rows = <<>>

\* The arguments --start and --end of main, as "YYYY-MM-DD" strings.
FNGArgs ==
    {[start |-> <<2, 0, 2, 4, 0, 1, 0, 1>>, end |-> <<2, 0, 2, 4, 0, 1, 0, 1>>],
     [start |-> <<2, 0, 2, 4, 0, 1, 0, 1>>, end |-> <<2, 0, 2, 4, 0, 1, 0, 2>>]}

\* The timestamps of the records, in seconds: the last second of 2023-12-31,
\* midnight and noon of 2024-01-01, midnight of 2024-01-02 and of 2024-01-03.
FNGTimestamps == {1704067199, 1704067200, 1704110400, 1704153600, 1704240000}

\* A record of the payload.  kind says what rec.get("timestamp") is: "int", a
\* number or a string of digits; "junk", a value int() rejects; "absent", None.
\* value is "50" (a string of digits) or "x" (anything else).
FNGRecords ==
    [kind : {"int"}, timestamp : FNGTimestamps, value : {"50", "x"}]
    \cup [kind : {"junk", "absent"}, timestamp : {0}, value : {"50"}]

\* main parses its arguments (returning 2 on a malformed date or on end < start),
\* then fetch_all_fng calls _http_get_json(API_URL, timeout_seconds=30, retries,
\* backoff).
FNG_Call(retries, backoff, args) ==
    /\ script = "fng"
    /\ fng_pc = "idle"
    /\ IsIsoDate(args.start) /\ IsIsoDate(args.end)
    /\ ~DateLt(StrToDate(args.end), StrToDate(args.start))
    /\ fng_start' = StrToDate(args.start)
    /\ fng_end' = StrToDate(args.end)
    /\ fng_pc' = "request"
    /\ fng_retries' = retries
    /\ fng_backoff' = backoff
    /\ fng_attempt' = 0
    /\ UNCHANGED <<script, goldvars, procvars, estvars, ratevars, writevars, csvvars, batchvars, poolvars, tweetvars, listvars, savars, avvars, earnvars, fng_gets, fng_delays, fng_last_err, fng_firstErr,
                   fng_lastOutcome, fng_data, fng_err, fng_records, fng_rows>>

\* One iteration of the loop: urlopen, the status check, read, decode, json.loads.
FNG_Attempt(outcome) ==
    /\ script = "fng"
    /\ fng_pc = "request"
    /\ fng_gets' = fng_gets + 1
    /\ fng_lastOutcome' = outcome
    /\ IF outcome \in FNGShapes
       THEN /\ fng_data' = outcome
            /\ fng_pc' = "returned"
            /\ UNCHANGED <<fng_attempt, fng_delays, fng_last_err, fng_firstErr, fng_err>>
       ELSE IF outcome \in FNGUncaught
       THEN /\ fng_err' = [type |-> outcome, cause |-> "none"]
            /\ fng_pc' = "raised"
            /\ UNCHANGED <<fng_attempt, fng_delays, fng_last_err, fng_firstErr, fng_data>>
       ELSE /\ fng_last_err' = FNGLastErr(fng_last_err, outcome)
            /\ fng_firstErr' = IF fng_firstErr = "none" THEN outcome ELSE fng_firstErr
            /\ IF FNGGoesOn(fng_attempt, fng_retries)
               THEN /\ fng_delays' = Append(fng_delays, FNGSleep(fng_backoff, fng_attempt))
                    /\ fng_attempt' = fng_attempt + 1
                    /\ UNCHANGED <<fng_pc, fng_err>>
               ELSE \* break, then raise RuntimeError(...) from last_err
                    /\ fng_err' = [type |-> "RuntimeError", cause |-> fng_last_err']
                    /\ fng_pc' = "raised"
                    /\ UNCHANGED <<fng_attempt, fng_delays>>
            /\ UNCHANGED fng_data
    /\ UNCHANGED <<script, goldvars, procvars, estvars, ratevars, writevars, csvvars, batchvars, poolvars, tweetvars, listvars, savars, avvars, earnvars, fng_retries, fng_backoff, fng_start, fng_end,
                   fng_records, fng_rows>>

\* int(value_str) if isinstance(value_str, (int, str)) and str(value_str).isdigit()
\* else None
FNGValue(v) == IF v = "50" THEN 50 ELSE None

\* by_date, in the order its keys were first inserted: entries [day, ts, row].
HasDay(by_date, day) == \E i \in 1..Len(by_date) : by_date[i].day = day
PrevTs(by_date, day) == by_date[CHOOSE i \in 1..Len(by_date) : by_date[i].day = day].ts
PutDay(by_date, e) ==
    IF HasDay(by_date, e.day)
    THEN [i \in 1..Len(by_date) |-> IF by_date[i].day = e.day THEN e ELSE by_date[i]]
    ELSE Append(by_date, e)

\* if prev is None or ts >= prev[0]: by_date[day] = (ts, normalized)
FNGReplaces_Always(ts, prev_ts) == TRUE
FNGReplaces(ts, prev_ts) == ts >= prev_ts

\* for rec in records: ... by_date[day] = (ts, normalized)
RECURSIVE FNGScan(_, _, _, _, _)
FNGScan(records, start_date, end_date, i, by_date) ==
    IF i > Len(records) THEN by_date
    ELSE IF records[i].kind # "int"
         THEN FNGScan(records, start_date, end_date, i + 1, by_date)
    ELSE LET ts == records[i].timestamp
             day == to_utc_date_from_unix_seconds(ts)
             normalized == [date |-> isoformat(day), value |-> FNGValue(records[i].value),
                            timestamp |-> ts]
         IN IF DateLt(day, start_date) \/ DateLt(end_date, day)
            THEN FNGScan(records, start_date, end_date, i + 1, by_date)
            ELSE IF ~HasDay(by_date, day) \/ FNGReplaces(ts, PrevTs(by_date, day))
            THEN FNGScan(records, start_date, end_date, i + 1,
                         PutDay(by_date, [day |-> day, ts |-> ts, row |-> normalized]))
            ELSE FNGScan(records, start_date, end_date, i + 1, by_date)

\* sorted(by_date.values(), key=lambda x: _to_utc_date_from_unix_seconds(x[0])): a
\* stable sort, ascending, on the days of the timestamps.
InsertByDay(sorted, x) ==
    LET p == Cardinality({i \in 1..Len(sorted) :
                 DateLeq(to_utc_date_from_unix_seconds(sorted[i].ts),
                         to_utc_date_from_unix_seconds(x.ts))})
    IN SubSeq(sorted, 1, p) \o <<x>> \o SubSeq(sorted, p + 1, Len(sorted))
SortByDay(seq) ==
    LET upto[i \in 0..Len(seq)] ==
            IF i = 0 THEN <<>> ELSE InsertByDay(upto[i - 1], seq[i])
    IN upto[Len(seq)]

filter_and_normalize_records(records, start_date, end_date) ==
    LET by_date == FNGScan(records, start_date, end_date, 1, <<>>)
        items == SortByDay(by_date)
        rows == [i \in 1..Len(items) |-> items[i].row]
    IN SortByDate(rows)

\* fetch_all_fng checks the shape of what _http_get_json returned.
FNG_Validate ==
    /\ script = "fng"
    /\ fng_pc = "returned"
    /\ IF FNGShapeOk(fng_data)
       THEN fng_pc' = "valid" /\ UNCHANGED fng_err
       ELSE fng_pc' = "raised" /\ fng_err' = [type |-> "ValueError", cause |-> "none"]
    /\ UNCHANGED <<script, goldvars, procvars, estvars, ratevars, writevars, csvvars, batchvars, poolvars, tweetvars, listvars, savars, avvars, earnvars, fng_retries, fng_backoff, fng_attempt, fng_gets,
                   fng_delays, fng_last_err, fng_firstErr, fng_lastOutcome, fng_data,
                   fng_start, fng_end, fng_records, fng_rows>>

\* main reads records = data.get("data", []) and calls
\* filter_and_normalize_records(records, start_date, end_date).
FNG_Filter ==
    /\ script = "fng"
    /\ fng_pc = "valid"
    /\ fng_rows' = filter_and_normalize_records(fng_records, fng_start, fng_end)
    /\ fng_pc' = "done"
    /\ UNCHANGED <<script, goldvars, procvars, estvars, ratevars, writevars, csvvars, batchvars, poolvars, tweetvars, listvars, savars, avvars, earnvars, fng_retries, fng_backoff, fng_attempt, fng_gets,
                   fng_delays, fng_last_err, fng_firstErr, fng_lastOutcome, fng_data, fng_err,
                   fng_start, fng_end, fng_records>>

FNGNext ==
    \/ \E retries \in 1..MaxRetriesFNG, backoff \in FNGBackoffs, args \in FNGArgs :
          FNG_Call(retries, backoff, args)
    \/ \E outcome \in FNGOutcomes : FNG_Attempt(outcome)
    \/ FNG_Validate

(***************************************************************************)
(* Alpha Vantage (OHLCV and macro): _request_with_retries and the check of *)
(* its payload by fetch_stock_daily, fetch_crypto_daily, fetch_fx_daily,   *)
(* fetch_indicator and fetch_treasury_yield                                *)
(***************************************************************************)
MaxRetriesAV == 6   \* largest argument max_retries tried (the default is 6)

AVFunctions == {"fetch_stock_daily", "fetch_crypto_daily", "fetch_fx_daily",
                "fetch_indicator", "fetch_treasury_yield"}

\* The top-level key each function requires of the payload.
RequiredKey(fn) ==
    CASE fn = "fetch_stock_daily" -> "Time Series (Daily)"
      [] fn = "fetch_crypto_daily" -> "Time Series (Digital Currency Daily)"
      [] fn = "fetch_fx_daily" -> "Time Series FX (Daily)"
      [] fn = "fetch_indicator" -> "data"
      [] fn = "fetch_treasury_yield" -> "data"
      [] fn = "fetch_quarterly_earnings" -> "quarterlyEarnings"

\* A response of the API: requests.get raises ("neterr"), or returns a response
\* whose body is not JSON ("nonjson") or is a JSON object ("json") with or without
\* the fields Note, Information, Error Message, the required key and Meta Data.
\* "absent": the field is not there; "": it is there and empty.
AVResponses ==
    [kind : {"neterr"}, status : {0}, note : {"absent"}, info : {"absent"},
     errmsg : {"absent"}, key : {FALSE}, meta : {FALSE}]
    \cup
    [kind : {"nonjson"}, status : {200, 503}, note : {"absent"}, info : {"absent"},
     errmsg : {"absent"}, key : {FALSE}, meta : {FALSE}]
    \cup
    [kind : {"json"}, status : {200, 503}, note : {"absent", "", "n1", "n2"},
     info : {"absent", "i1"}, errmsg : {"absent", "e1"}, key : BOOLEAN, meta : BOOLEAN]

NoResp == [kind |-> "none", status |-> 0, note |-> "absent", info |-> "absent",
           errmsg |-> "absent", key |-> FALSE, meta |-> FALSE]

\* Python truthiness of payload.get(field)
Truthy(v) == v \notin {"absent", ""}

\* note_msg = payload.get("Note") or payload.get("Information")
NoteMsg(p) == IF Truthy(p.note) THEN p.note ELSE p.info

\* list(payload.keys())
Keys(p, fn) ==
    (IF p.note # "absent" THEN {"Note"} ELSE {})
    \cup (IF p.info # "absent" THEN {"Information"} ELSE {})
    \cup (IF p.errmsg # "absent" THEN {"Error Message"} ELSE {})
    \cup (IF p.key THEN {RequiredKey(fn)} ELSE {})
    \cup (IF p.meta THEN {"Meta Data"} ELSE {})

AV_FIRST_BACKOFF == 15     \* backoff_seconds = 15
AV_MAX_BACKOFF == 120      \* the cap in min(backoff_seconds * 2, 120)

\* backoff_seconds = min(backoff_seconds * 2, 120)
AVNextBackoff_NoCap(b) == b * 2
AVNextBackoff(b) == Min(b * 2, AV_MAX_BACKOFF)

\* The maximum single wait each retry loop configures: only _request_with_retries
\* has one; _rate_limited_get and _http_get_json sleep the computed delay as it is.
MaxWait(fetcher) ==
    CASE fetcher = "av" -> AV_MAX_BACKOFF
      [] fetcher = "sa" -> None
      [] fetcher = "fng" -> None

\* if note_msg: the response is a throttling signal
AVThrottled_NoteOnly(p) == Truthy(p.note)
AVThrottled(p) == Truthy(NoteMsg(p))

\* if attempt == max_retries: raise
AVGivesUp_Early(attempt, max_retries) == attempt >= max_retries - 1
AVGivesUp(attempt, max_retries) == attempt = max_retries

\* What the missing-key error of the five functions says: "Response keys:
\* {list(payload.keys())}".
AVMissingKeyError_NoKeys(p, fn) ==
    [type |-> "AlphaVantageError", kind |-> "missing_key", msg |-> "none", keys |-> {}]
AVMissingKeyError(p, fn) ==
    [type |-> "AlphaVantageError", kind |-> "missing_key", msg |-> "none",
     keys |-> Keys(p, fn)]

NoAVErr == [type |-> "none", kind |-> "none", msg |-> "none", keys |-> {}]

AVIdle ==
    /\ av_pc = "idle"
    /\ av_fn = "none"
    /\ av_max_retries = 0
    /\ av_attempt = 0
    /\ av_backoff = 0
    /\ av_gets = 0
    /\ av_delays = <<>>
    /\ av_firstNote = "none"
    /\ av_resp = NoResp
    /\ av_payload = NoResp
    /\ av_series = <<>>
    /\ av_rows = <<>>
    /\ av_err = NoAVErr

\* A fetch_* function builds its params and calls _request_with_retries.
AV_Call(fn, max_retries) ==
    /\ script = "av"
    /\ av_pc = "idle"
    /\ av_pc' = "request"
    /\ av_fn' = fn
    /\ av_max_retries' = max_retries
    /\ av_attempt' = 1
    /\ av_backoff' = AV_FIRST_BACKOFF
    /\ UNCHANGED <<script, goldvars, procvars, estvars, ratevars, writevars, csvvars, batchvars, poolvars, tweetvars, listvars, savars, fngvars, earnvars, av_gets, av_delays, av_firstNote, av_resp,
                   av_payload, av_series, av_rows, av_err>>

\* One iteration of the loop of _request_with_retries.
AV_Attempt(resp) ==
    /\ script = "av"
    /\ av_pc = "request"
    /\ av_gets' = av_gets + 1
    /\ av_resp' = resp
    /\ IF resp.kind = "neterr"
       THEN \* requests.get raises; nothing catches it
            /\ av_err' = [type |-> "RequestException", kind |-> "network",
                          msg |-> "none", keys |-> {}]
            /\ av_pc' = "raised"
            /\ UNCHANGED <<av_attempt, av_backoff, av_delays, av_firstNote, av_payload>>
       ELSE IF resp.kind = "nonjson"
       THEN /\ av_err' = [type |-> "AlphaVantageError", kind |-> "non_json",
                          msg |-> "none", keys |-> {}]
            /\ av_pc' = "raised"
            /\ UNCHANGED <<av_attempt, av_backoff, av_delays, av_firstNote, av_payload>>
       ELSE IF AVThrottled(resp)
       THEN /\ av_firstNote' = IF av_firstNote = "none" THEN NoteMsg(resp) ELSE av_firstNote
            /\ IF AVGivesUp(av_attempt, av_max_retries)
               THEN /\ av_err' = [type |-> "AlphaVantageError", kind |-> "throttled",
                                  msg |-> NoteMsg(resp), keys |-> {}]
                    /\ av_pc' = "raised"
                    /\ UNCHANGED <<av_attempt, av_backoff, av_delays, av_payload>>
               ELSE /\ av_delays' = Append(av_delays, av_backoff)
                    /\ av_backoff' = AVNextBackoff(av_backoff)
                    /\ av_attempt' = av_attempt + 1
                    /\ UNCHANGED <<av_pc, av_err, av_payload>>
       ELSE IF resp.errmsg # "absent"
       THEN /\ av_err' = [type |-> "AlphaVantageError", kind |-> "api_error",
                          msg |-> resp.errmsg, keys |-> {}]
            /\ av_pc' = "raised"
            /\ UNCHANGED <<av_attempt, av_backoff, av_delays, av_firstNote, av_payload>>
       ELSE /\ av_payload' = resp
            /\ av_pc' = "payload"
            /\ UNCHANGED <<av_attempt, av_backoff, av_delays, av_firstNote, av_err>>
    /\ UNCHANGED <<script, goldvars, procvars, estvars, ratevars, writevars, csvvars, batchvars, poolvars, tweetvars, listvars, savars, fngvars, earnvars, av_fn, av_max_retries, av_series, av_rows>>

\* The window of the Alpha Vantage scripts
START_DATE == <<2024, 1, 1>>
END_DATE == <<2025, 10, 31>>

\* _within_range(date_str), once fromisoformat has returned d
WithinRange_Exclusive(d) == DateLt(START_DATE, d) /\ DateLt(d, END_DATE)
WithinRange(d) == DateLeq(START_DATE, d) /\ DateLeq(d, END_DATE)

\* The functions that read a dict of date -> row, and those that read a list of
\* items with a date and a value.
OHLCVFunctions == {"fetch_stock_daily", "fetch_crypto_daily", "fetch_fx_daily"}
IndicatorFunctions == {"fetch_indicator", "fetch_treasury_yield"}

\* An entry of a series: its date string and its value ("1.5": every field is a
\* number; ".": a field float() rejects; "absent": a field is not there).
Entries == [date : DateStrs, value : EntryValues]

\* payload[key] of at most n entries: the keys of a dict differ from one another.
SeriesOf(fn, n) ==
    IF fn \in OHLCVFunctions
    THEN {q \in SeqsUpTo(Entries, n) :
             \A i, j \in 1..Len(q) : i # j => q[i].date # q[j].date}
    ELSE SeqsUpTo(Entries, n)

\* What float(row[...]) raises on a row that is not all numbers.
RowError(fn, value) ==
    IF value = "." THEN "ValueError"
    ELSE IF fn = "fetch_crypto_daily" THEN "TypeError" ELSE "KeyError"

\* for date_str, row in series.items(): ... records.append(...)
RECURSIVE OHLCVScan(_, _, _, _)
OHLCVScan(fn, series, i, records) ==
    IF i > Len(series) THEN [raised |-> "none", rows |-> records]
    ELSE IF ~IsIsoDate(series[i].date) THEN [raised |-> "ValueError", rows |-> <<>>]
    ELSE IF ~WithinRange(StrToDate(series[i].date))
         THEN OHLCVScan(fn, series, i + 1, records)
    ELSE IF series[i].value # "1.5"
         THEN [raised |-> RowError(fn, series[i].value), rows |-> <<>>]
    ELSE OHLCVScan(fn, series, i + 1, Append(records, series[i]))

\* try: value = float(value_str) / except (TypeError, ValueError): continue
FloatOk(value) == value = "1.5"

\* for item in payload["data"]: ... rows.append(...)
RECURSIVE IndicatorScan(_, _, _)
IndicatorScan(items, i, rows) ==
    IF i > Len(items) THEN [raised |-> "none", rows |-> rows]
    ELSE IF items[i].date = <<>> \/ items[i].value = "absent"
         THEN IndicatorScan(items, i + 1, rows)
    ELSE IF ~IsIsoDate(items[i].date) THEN [raised |-> "ValueError", rows |-> <<>>]
    ELSE IF ~WithinRange(StrToDate(items[i].date))
         THEN IndicatorScan(items, i + 1, rows)
    ELSE IF ~FloatOk(items[i].value) THEN IndicatorScan(items, i + 1, rows)
    ELSE IndicatorScan(items, i + 1, Append(rows, items[i]))

\* The loop of a fetch_* function, then rows.sort(key=lambda r: r["date"]).
ParseSeries(fn, series) ==
    LET scan == IF fn \in OHLCVFunctions THEN OHLCVScan(fn, series, 1, <<>>)
                ELSE IndicatorScan(series, 1, <<>>)
    IN [raised |-> scan.raised, rows |-> SortByDate(scan.rows)]

\* The fetch_* function checks that the payload holds its key.
AV_Validate ==
    /\ script = "av"
    /\ av_pc = "payload"
    /\ IF av_payload.key
       THEN av_pc' = "valid" /\ UNCHANGED av_err
       ELSE av_pc' = "raised" /\ av_err' = AVMissingKeyError(av_payload, av_fn)
    /\ UNCHANGED <<script, goldvars, procvars, estvars, ratevars, writevars, csvvars, batchvars, poolvars, tweetvars, listvars, savars, fngvars, earnvars, av_fn, av_max_retries, av_attempt, av_backoff,
                   av_gets, av_delays, av_firstNote, av_resp, av_payload, av_series, av_rows>>

\* The fetch_* function reads series = payload[key], turns the series into rows and returns them, or raises
\* what the loop raises.
AV_Parse ==
    /\ script = "av"
    /\ av_pc = "valid"
    /\ LET r == ParseSeries(av_fn, av_series)
       IN IF r.raised = "none"
          THEN av_pc' = "done" /\ av_rows' = r.rows /\ UNCHANGED av_err
          ELSE /\ av_pc' = "raised"
               /\ av_err' = [type |-> r.raised, kind |-> "parse", msg |-> "none", keys |-> {}]
               /\ UNCHANGED av_rows
    /\ UNCHANGED <<script, goldvars, procvars, estvars, ratevars, writevars, csvvars, batchvars, poolvars, tweetvars, listvars, savars, fngvars, earnvars, av_fn, av_max_retries, av_attempt, av_backoff,
                   av_gets, av_delays, av_firstNote, av_resp, av_payload, av_series>>

AVNext ==
    \/ \E fn \in AVFunctions, max_retries \in 1..MaxRetriesAV : AV_Call(fn, max_retries)
    \/ \E resp \in AVResponses : AV_Attempt(resp)
    \/ AV_Validate

(***************************************************************************)
(* Alpha Vantage earnings: fetch_quarterly_earnings                        *)
(***************************************************************************)
MaxKeys == 3        \* most top-level keys of an earnings payload

\* The top-level entries a body of the EARNINGS endpoint can hold; v is the value
\* of a message field ("": empty), or names the value otherwise.
EarnEntries ==
    [k : {"Note"}, v : {"", "n1"}]
    \cup [k : {"Information"}, v : {"", "i1"}]
    \cup [k : {"Error Message"}, v : {"", "e1"}]
    \cup [k : {"symbol"}, v : {"ticker"}]
    \cup [k : {"annualEarnings"}, v : {"array"}]
    \cup [k : {"quarterlyEarnings"}, v : {"array"}]

\* JSON objects: sequences of entries with distinct keys.
EarnPayloads ==
    UNION {{p \in [1..n -> EarnEntries] : \A i, j \in 1..n : i # j => p[i].k # p[j].k}
           : n \in 0..MaxKeys}

EarnKeys(p) == {p[i].k : i \in DOMAIN p}

\* data.get(key)
EarnGet(p, key) ==
    IF key \in EarnKeys(p) THEN (CHOOSE e \in {p[i] : i \in DOMAIN p} : e.k = key).v
    ELSE "absent"

\* message = data.get("Note") or data.get("Information") or data.get("Error Message")
EarnMessage(p) ==
    IF Truthy(EarnGet(p, "Note")) THEN EarnGet(p, "Note")
    ELSE IF Truthy(EarnGet(p, "Information")) THEN EarnGet(p, "Information")
    ELSE EarnGet(p, "Error Message")

DUMP_LIMIT == 500   \* json.dumps(data)[:500]

\* Characters of json.dumps for a key with its quotes, and for one "key": value
\* entry with its separator, for values of representative sizes (a ticker, a
\* one-sentence message, an array of reports).
KeyChars(k) ==
    CASE k = "Note" -> 6
      [] k = "Information" -> 13
      [] k = "Error Message" -> 15
      [] k = "symbol" -> 8
      [] k = "annualEarnings" -> 16
      [] k = "quarterlyEarnings" -> 19

ValueChars(v) ==
    CASE v = "" -> 2
      [] v = "ticker" -> 6
      [] v \in {"n1", "i1", "e1"} -> 80
      [] v = "array" -> 600

EntryChars(e) == KeyChars(e.k) + 2 + ValueChars(e.v) + 2

RECURSIVE DumpOffset(_, _)
\* The offset in json.dumps(p) at which entry i starts.
DumpOffset(p, i) == IF i = 1 THEN 1 ELSE DumpOffset(p, i - 1) + EntryChars(p[i - 1])

\* The keys whose names lie within the first DUMP_LIMIT characters of the dump.
DumpKeys(p) == {p[i].k : i \in {j \in DOMAIN p : DumpOffset(p, j) + KeyChars(p[j].k) <= DUMP_LIMIT}}

\* raise RuntimeError(f"Unexpected response for {symbol}. Message:
\*                     {message or json.dumps(data)[:500]}")
EarnUnexpectedError(p) ==
    IF Truthy(EarnMessage(p))
    THEN [type |-> "RuntimeError", kind |-> "unexpected", msg |-> EarnMessage(p), keys |-> {}]
    ELSE [type |-> "RuntimeError", kind |-> "unexpected", msg |-> "none", keys |-> DumpKeys(p)]

EarnIdle ==
    /\ earn_pc = "idle"
    /\ earn_payload = <<>>
    /\ earn_err = NoAVErr

\* urlopen, read, json.loads: an exception of urlopen or of json.loads propagates.
EARN_Request(outcome, body) ==
    /\ script = "earn"
    /\ earn_pc = "idle"
    /\ IF outcome \in {"URLError", "JSONDecodeError"}
       THEN /\ body = <<>>
            /\ earn_pc' = "raised"
            /\ earn_err' = [type |-> outcome, kind |-> "request", msg |-> "none", keys |-> {}]
            /\ UNCHANGED earn_payload
       ELSE /\ earn_pc' = "payload"
            /\ earn_payload' = body
            /\ UNCHANGED earn_err
    /\ UNCHANGED <<script, goldvars, procvars, estvars, ratevars, writevars, csvvars, batchvars, poolvars, tweetvars, listvars, savars, fngvars, avvars>>

\* if "quarterlyEarnings" not in data: raise RuntimeError
EARN_Validate ==
    /\ script = "earn"
    /\ earn_pc = "payload"
    /\ IF "quarterlyEarnings" \in EarnKeys(earn_payload)
       THEN earn_pc' = "valid" /\ UNCHANGED earn_err
       ELSE earn_pc' = "raised" /\ earn_err' = EarnUnexpectedError(earn_payload)
    /\ UNCHANGED <<script, goldvars, procvars, estvars, ratevars, writevars, csvvars, batchvars, poolvars, tweetvars, listvars, savars, fngvars, avvars, earn_payload>>

EarnNext ==
    \/ \E outcome \in {"URLError", "JSONDecodeError", "json"}, body \in EarnPayloads :
           EARN_Request(outcome, body)
    \/ EARN_Validate

(***************************************************************************)
(* Seeking Alpha: list_earnings_call_transcripts_for_ticker                *)
(***************************************************************************)
MaxPages == 3       \* largest argument max_pages tried
MaxArticles == 2    \* most article elements of a listing page

\* The window of the Seeking Alpha script
SA_START_DATE == <<2024, 1, 1>>
SA_END_DATE == <<2025, 10, 31>>

\* pandas.NaT, and the comparisons of datetimes: every comparison with NaT is
\* False.
NaT == <<0, 0, 0>>
PdLt(a, b) == a # NaT /\ b # NaT /\ DateLt(a, b)
PdLeq(a, b) == a # NaT /\ b # NaT /\ DateLeq(a, b)

\* An article element.  kind: "no_h3", "other_title" (the title is not that of an
\* earnings call transcript), "no_href", "transcript".  date_text is the text of
\* its span, and "" when it has none: a day before the window, the first day of
\* the window, a day after it, a text that is no date, or "".
ListDateTexts ==
    {<<2, 0, 2, 3, 1, 2, 3, 1>>, <<2, 0, 2, 4, 0, 1, 0, 1>>, <<2, 0, 2, 5, 1, 1, 0, 1>>,
     <<2, 0, 2, 4, 0, 2, 3, 0>>, <<>>}
Articles ==
    [kind : {"transcript"}, date_text : ListDateTexts]
    \cup [kind : {"no_h3", "other_title", "no_href"}, date_text : {<<2, 0, 2, 4, 0, 1, 0, 1>>}]

\* pd.to_datetime(date_text, infer_datetime_format=True): NaT for "", an exception
\* for a text that is no date.
ToDatetimeRaises(text) == text # <<>> /\ ~IsIsoDate(text)
to_datetime(text) == IF text = <<>> THEN NaT ELSE StrToDate(text)

NoDate == <<>>      \* oldest_on_page = None

\* if oldest_on_page is None or d_py < oldest_on_page: oldest_on_page = d_py
Oldest(oldest_on_page, d_py) ==
    IF oldest_on_page = NoDate \/ PdLt(d_py, oldest_on_page) THEN d_py ELSE oldest_on_page

\* for art in articles: ...; the result is [oldest_on_page, page_had_any_in_range,
\* records].
RECURSIVE ArticleScan(_, _, _)
ArticleScan(articles, i, acc) ==
    IF i > Len(articles) THEN acc
    ELSE IF articles[i].kind # "transcript" THEN ArticleScan(articles, i + 1, acc)
    ELSE IF ToDatetimeRaises(articles[i].date_text) THEN ArticleScan(articles, i + 1, acc)
    ELSE LET d_py == to_datetime(articles[i].date_text)
             in_range == PdLeq(SA_START_DATE, d_py) /\ PdLeq(d_py, SA_END_DATE)
         IN ArticleScan(articles, i + 1,
                [oldest_on_page |-> Oldest(acc.oldest_on_page, d_py),
                 page_had_any_in_range |-> acc.page_had_any_in_range \/ in_range,
                 records |-> IF in_range THEN Append(acc.records, d_py) ELSE acc.records])

\* if oldest_on_page is not None and oldest_on_page < START_DATE and not
\* page_had_any_in_range: break
StopsAfter_AnyOld(scan) ==
    /\ scan.oldest_on_page # NoDate
    /\ PdLt(scan.oldest_on_page, SA_START_DATE)
StopsAfter(scan) ==
    /\ scan.oldest_on_page # NoDate
    /\ PdLt(scan.oldest_on_page, SA_START_DATE)
    /\ ~scan.page_had_any_in_range

ListIdle ==
    /\ list_pc = "idle"
    /\ list_max_pages = 0
    /\ list_page = 0
    /\ list_articles = <<>>
    /\ list_records = <<>>

\* list_earnings_call_transcripts_for_ticker(ticker, max_pages) is called.
LIST_Call(max_pages) ==
    /\ script = "list"
    /\ list_pc = "idle"
    /\ list_max_pages' = max_pages
    /\ list_page' = 1
    /\ list_pc' = "loop"
    /\ UNCHANGED <<script, goldvars, procvars, estvars, ratevars, writevars, csvvars, batchvars, poolvars, savars, fngvars, avvars, earnvars, tweetvars, list_articles, list_records>>

\* _get_soup raises what _rate_limited_get raises: the function ends with it.
LIST_PageFails ==
    /\ script = "list"
    /\ list_pc = "loop"
    /\ list_pc' = "raised"
    /\ UNCHANGED <<script, goldvars, procvars, estvars, ratevars, writevars, csvvars, batchvars, poolvars, savars, fngvars, avvars, earnvars, tweetvars, list_max_pages, list_page,
                   list_articles, list_records>>

\* One iteration of the loop over the pages: the request of page list_page, the
\* loop over its articles, the two breaks, the sleep, and the end of range().
LIST_Page(articles) ==
    /\ script = "list"
    /\ list_pc = "loop"
    /\ list_articles' = articles
    /\ LET scan == ArticleScan(articles, 1,
                       [oldest_on_page |-> NoDate, page_had_any_in_range |-> FALSE,
                        records |-> list_records])
       IN IF articles = <<>>
          THEN list_pc' = "returned" /\ UNCHANGED <<list_page, list_records>>
          ELSE /\ list_records' = scan.records
               /\ IF StopsAfter(scan) \/ list_page = list_max_pages
                  THEN list_pc' = "returned" /\ UNCHANGED list_page
                  ELSE list_page' = list_page + 1 /\ UNCHANGED list_pc
    /\ UNCHANGED <<script, goldvars, procvars, estvars, ratevars, writevars, csvvars, batchvars, poolvars, savars, fngvars, avvars, earnvars, tweetvars, list_max_pages>>

ListNext ==
    \/ \E max_pages \in 1..MaxPages : LIST_Call(max_pages)
    \/ LIST_PageFails
    \/ \E articles \in SeqsUpTo(Articles, MaxArticles) : LIST_Page(articles)

(***************************************************************************)
(* X: get_user_tweets_page and fetch_user_tweets                           *)
(***************************************************************************)
MaxTweets == 1      \* most tweets of one page

\* The values of next_cursor_str in a response: the key is not there, an empty
\* string, two cursors.
Cursors == {"c1", "c2"}
NextCursors == {"absent", ""} \cup Cursors

\* The value of 'tweets' in a response: the key is not there, null, a list of n
\* tweets ("list" with n).
TweetResponses ==
    [tweets : {"absent", "null"}, n : {0}, next : NextCursors]
    \cup [tweets : {"list"}, n : 0..MaxTweets, next : NextCursors]

\* get_user_tweets_page: if cursor: url += f"&cursor={cursor}" else "&cursor=null"
CursorParam(cursor) == IF cursor \in {"None", ""} THEN "null" ELSE cursor

\* while page <= max_pages
TweetLoopGoesOn_OneMore(page, max_pages) == page <= max_pages + 1
TweetLoopGoesOn(page, max_pages) == page <= max_pages

\* if not next_cursor: break
NoNextCursor(next) == next \in {"absent", ""}

\* cursor = next_cursor
CursorAfter_Stale(cursor, next_cursor) == cursor
CursorAfter(cursor, next_cursor) == next_cursor

TweetIdle ==
    /\ tw_pc = "idle"
    /\ tw_max_pages = 0
    /\ tw_page = 0
    /\ tw_cursor = "None"
    /\ tw_calls = 0
    /\ tw_sent = "none"
    /\ tw_next = "none"
    /\ tw_all = 0
    /\ tw_failed = FALSE

\* fetch_user_tweets(user_id, user_name, max_pages) is called.
TW_Call(max_pages) ==
    /\ script = "tweets"
    /\ tw_pc = "idle"
    /\ tw_max_pages' = max_pages
    /\ tw_page' = 1
    /\ tw_cursor' = "None"
    /\ tw_pc' = "loop"
    /\ UNCHANGED <<script, goldvars, procvars, estvars, ratevars, writevars, csvvars, batchvars, poolvars, savars, fngvars, avvars, earnvars, listvars, tw_calls, tw_sent,
                   tw_next, tw_all, tw_failed>>

\* The condition of the while loop is false: the function returns all_tweets.
TW_Exhausted ==
    /\ script = "tweets"
    /\ tw_pc = "loop"
    /\ ~TweetLoopGoesOn(tw_page, tw_max_pages)
    /\ tw_pc' = "returned"
    /\ UNCHANGED <<script, goldvars, procvars, estvars, ratevars, writevars, csvvars, batchvars, poolvars, savars, fngvars, avvars, earnvars, listvars, tw_max_pages, tw_page,
                   tw_cursor, tw_calls, tw_sent, tw_next, tw_all, tw_failed>>

\* One iteration in which get_user_tweets_page raises (the connection, the body
\* that is not JSON) or returns something that is not a dict: except ... break.
TW_PageFails ==
    /\ script = "tweets"
    /\ tw_pc = "loop"
    /\ TweetLoopGoesOn(tw_page, tw_max_pages)
    /\ tw_calls' = tw_calls + 1
    /\ tw_sent' = CursorParam(tw_cursor)
    /\ tw_next' = "none"
    /\ tw_failed' = TRUE
    /\ tw_pc' = "returned"
    /\ UNCHANGED <<script, goldvars, procvars, estvars, ratevars, writevars, csvvars, batchvars, poolvars, savars, fngvars, avvars, earnvars, listvars, tw_max_pages, tw_page,
                   tw_cursor, tw_all>>

\* One iteration in which get_user_tweets_page returns a dict.
TW_Page(response) ==
    /\ script = "tweets"
    /\ tw_pc = "loop"
    /\ TweetLoopGoesOn(tw_page, tw_max_pages)
    /\ tw_calls' = tw_calls + 1
    /\ tw_sent' = CursorParam(tw_cursor)
    /\ IF response.tweets = "null"
       THEN \* all_tweets.extend(None) raises TypeError: except ... break
            /\ tw_failed' = TRUE
            /\ tw_next' = "none"
            /\ tw_pc' = "returned"
            /\ UNCHANGED <<tw_all, tw_cursor, tw_page>>
       ELSE /\ tw_all' = tw_all + response.n
            /\ tw_next' = response.next
            /\ UNCHANGED tw_failed
            /\ IF NoNextCursor(response.next)
               THEN tw_pc' = "returned" /\ UNCHANGED <<tw_cursor, tw_page>>
               ELSE /\ tw_cursor' = CursorAfter(tw_cursor, response.next)
                    /\ tw_page' = tw_page + 1
                    /\ UNCHANGED tw_pc
    /\ UNCHANGED <<script, goldvars, procvars, estvars, ratevars, writevars, csvvars, batchvars, poolvars, savars, fngvars, avvars, earnvars, listvars, tw_max_pages>>

ProcIdle ==
    /\ ps_result = "none"
    /\ ps_file = None

\* process_single_user once fetch_user_tweets has returned: if not tweets: return
\* False; success = save_tweets(user_name, tweets); return success.  save_tweets
\* returns True once the file is written and False when writing it raised.
PROC_Finish(saved) ==
    /\ script = "tweets"
    /\ tw_pc = "returned"
    /\ ps_result = "none"
    /\ IF tw_all = 0
       THEN ps_result' = "False" /\ UNCHANGED ps_file
       ELSE IF saved
            THEN ps_result' = "True" /\ ps_file' = tw_all
            ELSE ps_result' = "False" /\ UNCHANGED ps_file
    /\ UNCHANGED <<script, goldvars, estvars, ratevars, writevars, csvvars, batchvars, poolvars, savars,
                   fngvars, avvars, earnvars, listvars, tweetvars>>

TweetNext ==
    \/ \E max_pages \in 0..MaxPages : TW_Call(max_pages)
    \/ TW_Exhausted
    \/ TW_PageFails
    \/ \E response \in TweetResponses : TW_Page(response)
    \/ \E saved \in BOOLEAN : PROC_Finish(saved)

(***************************************************************************)
(* X: batch_fetch_tweets_parallel, process_single_user and save_tweets     *)
(***************************************************************************)
MaxUsers == 3       \* longest user_list
MaxWorkers == 2     \* largest max_workers

\* The handles of the user list: main reads them from a spreadsheet column and
\* strips the leading '@', nothing makes them distinct.
Handles == {"a", "b"}

\* What the part of process_single_user before the file is opened comes to:
\* no rest_id, no tweets, an exception, save_tweets fails before it has opened
\* the file (os.makedirs, open), save_tweets has opened the file.
TaskOutcomes == {"no_id", "no_tweets", "raises", "cannot_open", "opened"}

\* filename = os.path.join(save_dir, f'{user_name}.json')
FileOf(user_name) == user_name

\* if future.result(): success_count += 1  else: fail_count += 1
CountAfter_SuccessOnly(counts, result) ==
    IF result = "True" THEN [counts EXCEPT !.success = @ + 1] ELSE counts
CountAfter(counts, result) ==
    IF result = "True" THEN [counts EXCEPT !.success = @ + 1]
                       ELSE [counts EXCEPT !.fail = @ + 1]

Items == 1..Len(pool_users)
Finished(i) == pool_task[i] \in {"True", "False"}

\* for future in as_completed(future_to_user) has yielded every future, and the
\* with block of the executor has ended.
AllCollected_FirstDone == pool_collected # {}
AllCollected == pool_collected = Items
Busy == {i \in Items : pool_task[i] \in {"running", "writing"}}

PoolIdle ==
    /\ pool_pc = "idle"
    /\ pool_users = <<>>
    /\ pool_workers = 0
    /\ pool_task = <<>>
    /\ pool_runs = <<>>
    /\ pool_file = <<>>
    /\ pool_collected = {}
    /\ success_count = 0
    /\ fail_count = 0

\* batch_fetch_tweets_parallel(user_list, max_pages, max_workers) is called and
\* creates the executor.
POOL_Call(user_list, max_workers) ==
    /\ script = "pool"
    /\ pool_pc = "idle"
    /\ pool_users' = user_list
    /\ pool_workers' = max_workers
    /\ pool_task' = [i \in 1..Len(user_list) |-> "unsubmitted"]
    /\ pool_runs' = [i \in 1..Len(user_list) |-> 0]
    /\ pool_file' = [i \in 1..Len(user_list) |-> "none"]
    /\ pool_pc' = "pool"
    /\ UNCHANGED <<script, goldvars, procvars, estvars, ratevars, writevars, csvvars, batchvars, savars, fngvars, avvars, earnvars, listvars, tweetvars,
                   pool_collected, success_count, fail_count>>

\* executor.submit(process_single_user, user, max_pages), for user in user_list,
\* in the order of the list.
POOL_Submit(i) ==
    /\ script = "pool"
    /\ pool_pc = "pool"
    /\ i \in Items
    /\ pool_task[i] = "unsubmitted"
    /\ \A j \in 1..(i - 1) : pool_task[j] # "unsubmitted"
    /\ pool_task' = [pool_task EXCEPT ![i] = "queued"]
    /\ UNCHANGED <<script, goldvars, procvars, estvars, ratevars, writevars, csvvars, batchvars, savars, fngvars, avvars, earnvars, listvars, tweetvars, pool_pc,
                   pool_users, pool_workers, pool_runs, pool_file, pool_collected,
                   success_count, fail_count>>

\* A worker thread that is free takes the oldest work item of the queue and
\* calls process_single_user.
POOL_Start(i) ==
    /\ script = "pool"
    /\ pool_pc = "pool"
    /\ i \in Items
    /\ pool_task[i] = "queued"
    /\ \A j \in 1..(i - 1) : pool_task[j] # "queued"
    /\ Cardinality(Busy) < pool_workers
    /\ pool_task' = [pool_task EXCEPT ![i] = "running"]
    /\ pool_runs' = [pool_runs EXCEPT ![i] = @ + 1]
    /\ UNCHANGED <<script, goldvars, procvars, estvars, ratevars, writevars, csvvars, batchvars, savars, fngvars, avvars, earnvars, listvars, tweetvars, pool_pc,
                   pool_users, pool_workers, pool_file, pool_collected, success_count,
                   fail_count>>

\* process_single_user up to open(filename, 'w'): it returns False when there is
\* no rest_id, when there are no tweets, when anything raises (except Exception)
\* and when save_tweets could not open the file.
POOL_Run(i, outcome) ==
    /\ script = "pool"
    /\ pool_pc = "pool"
    /\ i \in Items
    /\ pool_task[i] = "running"
    /\ IF outcome = "opened"
       THEN /\ pool_task' = [pool_task EXCEPT ![i] = "writing"]
            /\ pool_file' = [pool_file EXCEPT ![i] = FileOf(pool_users[i])]
       ELSE /\ pool_task' = [pool_task EXCEPT ![i] = "False"]
            /\ UNCHANGED pool_file
    /\ UNCHANGED <<script, goldvars, procvars, estvars, ratevars, writevars, csvvars, batchvars, savars, fngvars, avvars, earnvars, listvars, tweetvars, pool_pc,
                   pool_users, pool_workers, pool_runs, pool_collected, success_count,
                   fail_count>>

\* save_tweets: json.dump(tweets, f) and the end of the with block; True when it
\* went through, False when it raised.
POOL_Write(i, ok) ==
    /\ script = "pool"
    /\ pool_pc = "pool"
    /\ i \in Items
    /\ pool_task[i] = "writing"
    /\ pool_task' = [pool_task EXCEPT ![i] = IF ok THEN "True" ELSE "False"]
    /\ UNCHANGED <<script, goldvars, procvars, estvars, ratevars, writevars, csvvars, batchvars, savars, fngvars, avvars, earnvars, listvars, tweetvars, pool_pc,
                   pool_users, pool_workers, pool_runs, pool_file, pool_collected,
                   success_count, fail_count>>

\* One iteration of for i, future in enumerate(as_completed(future_to_user), 1):
\* a future that is done and was not yielded yet.
POOL_Collect(i) ==
    /\ script = "pool"
    /\ pool_pc = "pool"
    /\ i \in Items \ pool_collected
    /\ \A j \in Items : pool_task[j] # "unsubmitted"
    /\ Finished(i)
    /\ pool_collected' = pool_collected \cup {i}
    /\ LET counts == CountAfter([success |-> success_count, fail |-> fail_count],
                                pool_task[i])
       IN  success_count' = counts.success /\ fail_count' = counts.fail
    /\ UNCHANGED <<script, goldvars, procvars, estvars, ratevars, writevars, csvvars, batchvars, savars, fngvars, avvars, earnvars, listvars, tweetvars, pool_pc,
                   pool_users, pool_workers, pool_task, pool_runs, pool_file>>

\* as_completed is exhausted, the with block ends, the summary is logged;
\* elapsed_time/len(user_list) raises ZeroDivisionError for an empty list.
POOL_Return ==
    /\ script = "pool"
    /\ pool_pc = "pool"
    /\ \A j \in Items : pool_task[j] # "unsubmitted"
    /\ AllCollected
    /\ pool_pc' = IF Len(pool_users) = 0 THEN "raised" ELSE "returned"
    /\ UNCHANGED <<script, goldvars, procvars, estvars, ratevars, writevars, csvvars, batchvars, savars, fngvars, avvars, earnvars, listvars, tweetvars,
                   pool_users, pool_workers, pool_task, pool_runs, pool_file,
                   pool_collected, success_count, fail_count>>

PoolNext ==
    \/ \E user_list \in SeqsUpTo(Handles, MaxUsers), max_workers \in 1..MaxWorkers :
          POOL_Call(user_list, max_workers)
    \/ \E i \in 1..MaxUsers : POOL_Submit(i)
    \/ \E i \in 1..MaxUsers : POOL_Start(i)
    \/ \E i \in 1..MaxUsers, outcome \in TaskOutcomes : POOL_Run(i, outcome)
    \/ \E i \in 1..MaxUsers, ok \in BOOLEAN : POOL_Write(i, ok)
    \/ \E i \in 1..MaxUsers : POOL_Collect(i)
    \/ POOL_Return

(***************************************************************************)
(* The main functions that loop over entities: the earnings main over      *)
(* SYMBOLS, the OHLCV main over its assets, the Seeking Alpha main over    *)
(* TICKERS and over the transcripts, the FRED main over SERIES_IDS, the    *)
(* sequential tweet batch over user_list.                                  *)
(***************************************************************************)
MaxRows == 2        \* most transcripts of df_all, most users of user_list

Mains == {"earnings", "ohlcv", "macro", "sa", "fred", "tweets_seq"}

\* API_KEY, cut in pieces: the placeholder alone, the placeholder inside a longer
\* string, a key, the empty string.
PLACEHOLDER == "your_api_key_here"
ApiKeys == {<<PLACEHOLDER>>, <<"x", PLACEHOLDER, "y">>, <<"c1fc7556">>, <<>>}

\* if "your_api_key_here" in API_KEY
KeyUnset_Never(key) == FALSE
KeyUnset(key) == \E i \in 1..Len(key) : key[i] = PLACEHOLDER

\* One call main makes for an entity: what it does ("fetch" or "write"), the
\* exceptions it can raise, the exceptions the try block around it catches.
Call(op, raises, catches) == [op |-> op, raises |-> raises, catches |-> catches]

\* except Exception catches every exception, except AlphaVantageError only that.
IsCaught(exc, catches) == "Exception" \in catches \/ exc \in catches

\* One element of main's loop: its calls, the calls of its except block (<<>>:
\* the block makes no call), whether it is one of the batch's entities, whether
\* main skips it when its file is there already.
Item(calls, fallback, entity, skip) ==
    [calls |-> calls, fallback |-> fallback, entity |-> entity, skip |-> skip]

Times(n, item) == [i \in 1..n |-> item]

\* alpha_vantage_earnings_fetch.py: for symbol in SYMBOLS, four calls in one try
\* ... except Exception.
EarningsCall(op) == Call(op, {"Exception"}, {"Exception"})
EarningsPlan ==
    Times(2, Item(<<EarningsCall("fetch"), EarningsCall("write"), EarningsCall("fetch"),
                    EarningsCall("write")>>, <<>>, TRUE, FALSE))

\* alpha_vantage_OHLCV_fetch.py: NVDA, KO, SPY, BTC, DOGE outside any try; XAU/USD
\* in try ... except AlphaVantageError, GLD fetched in the except block; the
\* combined file at the end.
OHLCVPlan_ExceptAll ==
    Times(5, Item(<<Call("fetch", {"AlphaVantageError", "Exception"}, {}),
                    Call("write", {"Exception"}, {})>>, <<>>, TRUE, FALSE))
    \o <<Item(<<Call("fetch", {"AlphaVantageError", "Exception"}, {"Exception"}),
                Call("write", {"Exception"}, {"Exception"})>>,
              <<Call("fetch", {"AlphaVantageError", "Exception"}, {}),
                Call("write", {"Exception"}, {})>>, TRUE, FALSE)>>
    \o <<Item(<<Call("write", {"Exception"}, {})>>, <<>>, FALSE, FALSE)>>
OHLCVPlan ==
    Times(5, Item(<<Call("fetch", {"AlphaVantageError", "Exception"}, {}),
                    Call("write", {"Exception"}, {})>>, <<>>, TRUE, FALSE))
    \o <<Item(<<Call("fetch", {"AlphaVantageError", "Exception"}, {"AlphaVantageError"}),
                Call("write", {"Exception"}, {"AlphaVantageError"})>>,
              <<Call("fetch", {"AlphaVantageError", "Exception"}, {}),
                Call("write", {"Exception"}, {})>>, TRUE, FALSE)>>
    \o <<Item(<<Call("write", {"Exception"}, {})>>, <<>>, FALSE, FALSE)>>

\* nvda_ko_earnings_call_fetch.py: the listing of each ticker outside any try;
\* with rows transcripts found, the metadata file, then per transcript
\* fetch_transcript_text in try ... except Exception and write_text after it.
SAPlan(rows) ==
    Times(NumTickers, Item(<<Call("fetch", {"Exception"}, {})>>, <<>>, TRUE, FALSE))
    \o (IF rows = 0 THEN <<>>
        ELSE <<Item(<<Call("write", {"Exception"}, {})>>, <<>>, FALSE, FALSE)>>
             \o Times(rows, Item(<<Call("fetch", {"Exception"}, {"Exception"}),
                                   Call("write", {"Exception"}, {})>>, <<>>, TRUE, TRUE)))

\* fred_data_fetch.py: for name, series_id in SERIES_IDS.items(): fetch_series,
\* save_dataset, outside any try.
FREDPlan ==
    Times(3, Item(<<Call("fetch", {"Exception"}, {}), Call("write", {"Exception"}, {})>>,
                  <<>>, TRUE, FALSE))

\* macro_fetch.py: INFLATION, UNEMPLOYMENT, FEDERAL_FUNDS_RATE, TREASURY_YIELD,
\* each fetched and written outside any try.
MacroPlan ==
    Times(4, Item(<<Call("fetch", {"AlphaVantageError", "Exception"}, {}),
                    Call("write", {"Exception"}, {})>>, <<>>, TRUE, FALSE))

\* batch_fetch_tweets_sequential: process_single_user, which catches Exception.
TweetsSeqPlan(users) ==
    Times(users, Item(<<Call("fetch", {"Exception"}, {"Exception"})>>, <<>>, TRUE, FALSE))

PlanOf(main, rows) ==
    CASE main = "earnings" -> EarningsPlan
      [] main = "ohlcv" -> OHLCVPlan
      [] main = "macro" -> MacroPlan
      [] main = "sa" -> SAPlan(rows)
      [] main = "fred" -> FREDPlan
      [] main = "tweets_seq" -> TweetsSeqPlan(rows)

\* The seconds main sleeps once it is through with the element idx of its loop:
\* if idx < len(SYMBOLS) - 1: time.sleep(12) after the try of the earnings main,
\* time.sleep(15) after each of NVDA, KO, SPY, BTC, DOGE and after each macro
\* series but the last.
PauseAfter(main, idx) ==
    CASE main = "earnings" -> IF idx < Len(EarningsPlan) THEN 12 ELSE 0
      [] main = "ohlcv" -> IF idx <= 5 THEN 15 ELSE 0
      [] main = "macro" -> IF idx < Len(MacroPlan) THEN 15 ELSE 0
      [] OTHER -> 0

\* time.sleep(15) at the head of the except AlphaVantageError block of the OHLCV main.
PauseInExcept(main) == IF main = "ohlcv" THEN 15 ELSE 0

\* The rate-limit sleep of each Alpha Vantage script.
RateLimitSleep(main) == IF main = "earnings" THEN 12 ELSE 15

\* return 0 if all_ok else 1 in the earnings main; the other mains return None.
ExitCode_AlwaysZero(main, ok) == 0
ExitCode(main, ok) == IF main = "earnings" /\ ~ok THEN 1 ELSE 0

BatchIdle ==
    /\ batch_pc = "idle"
    /\ batch_main = "none"
    /\ batch_key = <<>>
    /\ batch_plan = <<>>
    /\ batch_idx = 0
    /\ batch_step = 0
    /\ batch_alt = FALSE
    /\ batch_attempted = {}
    /\ batch_failed = {}
    /\ all_ok = TRUE
    /\ batch_exit = None
    /\ batch_requests = 0
    /\ batch_files = 0
    /\ batch_gap = None
    /\ batch_minGap = None

\* main is called and runs up to its loop: the key check of the FRED main,
\* OUTPUT_DIR.mkdir / OUT_DIR.mkdir of the earnings and the Seeking Alpha main.
BATCH_Call(main, key, rows, mkdir_ok) ==
    /\ script = "batch"
    /\ batch_pc = "idle"
    /\ main \notin {"sa", "tweets_seq"} => rows = 0
    /\ main # "fred" => key = <<>>
    /\ main \notin {"earnings", "sa"} => mkdir_ok
    /\ batch_main' = main
    /\ batch_key' = key
    /\ batch_plan' = PlanOf(main, rows)
    /\ IF main = "fred" /\ KeyUnset(key)
       THEN batch_pc' = "exit" /\ batch_exit' = 1 /\ UNCHANGED <<batch_idx, batch_step>>
       ELSE IF ~mkdir_ok
            THEN batch_pc' = "raised" /\ batch_exit' = 1
                 /\ UNCHANGED <<batch_idx, batch_step>>
            ELSE batch_pc' = "loop" /\ batch_idx' = 1 /\ batch_step' = 1
                 /\ UNCHANGED batch_exit
    /\ UNCHANGED <<script, goldvars, procvars, estvars, ratevars, writevars, csvvars, savars, fngvars, avvars, earnvars, listvars, tweetvars, poolvars,
                   batch_alt, batch_attempted, batch_failed, all_ok, batch_requests,
                   batch_files, batch_gap, batch_minGap>>

\* The assets of the OHLCV main in the order of its statements; GLD is the one of
\* the except block.
OHLCVAssets == <<"NVDA", "KO", "SPY", "BTC", "DOGE", "XAU">>
IsAsset == batch_main = "ohlcv" /\ batch_idx <= Len(OHLCVAssets)
AssetNow == IF batch_alt THEN "GLD" ELSE OHLCVAssets[batch_idx]

GoldIdle ==
    /\ all_records = <<>>
    /\ batch_fetches = <<>>
    /\ batch_combined = [written |-> FALSE, sources |-> <<>>]

CallsNow == IF batch_alt THEN batch_plan[batch_idx].fallback ELSE batch_plan[batch_idx].calls
EntitiesAt(idx) == IF batch_plan[idx].entity THEN {idx} ELSE {}

\* One call of the loop body: it returns ("ok") or raises outcome.
BATCH_Step(outcome) ==
    /\ script = "batch"
    /\ batch_pc = "loop"
    /\ batch_idx <= Len(batch_plan)
    /\ LET call == CallsNow[batch_step]
           item == batch_plan[batch_idx]
       IN  /\ outcome \in {"ok"} \cup call.raises
           /\ batch_attempted' = batch_attempted \cup EntitiesAt(batch_idx)
           /\ batch_requests' = batch_requests + (IF call.op = "fetch" THEN 1 ELSE 0)
           /\ batch_files' =
                 batch_files + (IF call.op = "write" /\ outcome = "ok" THEN 1 ELSE 0)
           /\ all_records' =
                 IF IsAsset /\ call.op = "write" /\ outcome = "ok"
                 THEN Append(all_records, AssetNow) ELSE all_records
           /\ batch_fetches' =
                 IF IsAsset /\ call.op = "fetch"
                 THEN Append(batch_fetches, [asset |-> AssetNow, outcome |-> outcome])
                 ELSE batch_fetches
           /\ batch_combined' =
                 IF batch_main = "ohlcv" /\ ~IsAsset /\ outcome = "ok"
                 THEN [written |-> TRUE, sources |-> all_records] ELSE batch_combined
           /\ batch_minGap' =
                 IF call.op = "fetch" /\ batch_gap # None
                 THEN IF batch_minGap = None THEN batch_gap
                      ELSE Min(batch_minGap, batch_gap)
                 ELSE batch_minGap
           /\ LET gap == IF call.op = "fetch" THEN 0 ELSE batch_gap
                   leaves == \/ outcome = "ok" /\ batch_step = Len(CallsNow)
                             \/ /\ outcome # "ok" /\ IsCaught(outcome, call.catches)
                                /\ item.fallback = <<>>
                   excepts == /\ outcome # "ok" /\ IsCaught(outcome, call.catches)
                              /\ item.fallback # <<>>
               IN  batch_gap' =
                      IF gap = None THEN None
                      ELSE gap + (IF leaves THEN PauseAfter(batch_main, batch_idx) ELSE 0)
                               + (IF excepts THEN PauseInExcept(batch_main) ELSE 0)
           /\ IF outcome = "ok"
              THEN /\ IF batch_step < Len(CallsNow)
                      THEN batch_step' = batch_step + 1 /\ UNCHANGED <<batch_idx, batch_alt>>
                      ELSE batch_idx' = batch_idx + 1 /\ batch_step' = 1
                           /\ batch_alt' = FALSE
                   /\ UNCHANGED <<batch_pc, batch_failed, all_ok, batch_exit>>
              ELSE IF IsCaught(outcome, call.catches)
                   THEN IF item.fallback # <<>>
                        THEN \* the except block goes on with its own calls
                             /\ batch_alt' = TRUE
                             /\ batch_step' = 1
                             /\ UNCHANGED <<batch_pc, batch_idx, batch_failed, all_ok,
                                            batch_exit>>
                        ELSE \* the except block records the failure, the loop goes on
                             /\ batch_failed' = batch_failed \cup EntitiesAt(batch_idx)
                             /\ all_ok' = IF batch_main = "earnings" THEN FALSE ELSE all_ok
                             /\ batch_idx' = batch_idx + 1
                             /\ batch_step' = 1
                             /\ UNCHANGED <<batch_pc, batch_alt, batch_exit>>
                   ELSE \* nothing catches it: main ends with the traceback
                        /\ batch_failed' = batch_failed \cup EntitiesAt(batch_idx)
                        /\ batch_pc' = "raised"
                        /\ batch_exit' = 1
                        /\ UNCHANGED <<batch_idx, batch_step, batch_alt, all_ok>>
    /\ UNCHANGED <<script, procvars, estvars, ratevars, writevars, csvvars, savars, fngvars, avvars, earnvars, listvars, tweetvars, poolvars,
                   batch_main, batch_key, batch_plan>>

\* if out_path.exists() and out_path.stat().st_size > 0: continue
BATCH_Skip ==
    /\ script = "batch"
    /\ batch_pc = "loop"
    /\ batch_idx <= Len(batch_plan)
    /\ batch_plan[batch_idx].skip
    /\ batch_step = 1
    /\ batch_attempted' = batch_attempted \cup EntitiesAt(batch_idx)
    /\ batch_idx' = batch_idx + 1
    /\ UNCHANGED <<script, goldvars, procvars, estvars, ratevars, writevars, csvvars, savars, fngvars, avvars, earnvars, listvars, tweetvars, poolvars,
                   batch_pc, batch_main, batch_key, batch_plan, batch_step, batch_alt,
                   batch_failed, all_ok, batch_exit, batch_requests, batch_files,
                   batch_gap, batch_minGap>>

\* The loop is over: main returns.
BATCH_Return ==
    /\ script = "batch"
    /\ batch_pc = "loop"
    /\ batch_idx > Len(batch_plan)
    /\ batch_pc' = "returned"
    /\ batch_exit' = ExitCode(batch_main, all_ok)
    /\ UNCHANGED <<script, goldvars, procvars, estvars, ratevars, writevars, csvvars, savars, fngvars, avvars, earnvars, listvars, tweetvars, poolvars,
                   batch_main, batch_key, batch_plan, batch_idx, batch_step, batch_alt,
                   batch_attempted, batch_failed, all_ok, batch_requests, batch_files,
                   batch_gap, batch_minGap>>

BatchNext ==
    \/ \E main \in Mains, key \in ApiKeys, rows \in 0..MaxRows, mkdir_ok \in BOOLEAN :
          BATCH_Call(main, key, rows, mkdir_ok)
    \/ \E outcome \in {"ok", "AlphaVantageError", "Exception"} : BATCH_Step(outcome)
    \/ BATCH_Skip
    \/ BATCH_Return

(***************************************************************************)
(* The CSV writers: write_csv (OHLCV), write_macro_csv, save_csv (F&G)     *)
(***************************************************************************)
MaxRecords == 2     \* longest list of records written

Writers == {"write_csv", "write_macro_csv", "save_csv"}

\* fieldnames = [...]
Fieldnames(writer) ==
    CASE writer = "write_csv" ->
            <<"date", "symbol", "asset_type", "open", "high", "low", "close", "volume">>
      [] writer = "write_macro_csv" -> <<"date", "indicator", "value">>
      [] writer = "save_csv" ->
            <<"date", "value", "value_classification", "timestamp", "source", "source_url">>

FieldSet(writer) == {Fieldnames(writer)[j] : j \in 1..Len(Fieldnames(writer))}

\* The fields whose value is a float or an int; the other ones hold strings.
NumericFields == {"open", "high", "low", "close", "volume", "value", "timestamp"}

\* A value of a record: <<type, tag, k>> is the number ("num") or the string
\* ("str") that record tag holds for field k; <<"None">> is None. Text is
\* str(value), the characters the csv writer puts in the cell, and StrValue
\* the string that has these characters (<<"str">>: the empty string).
Value(tag, k) == <<IF k \in NumericFields THEN "num" ELSE "str", tag, k>>
Text(value) == Tail(value)
StrValue(text) == <<"str">> \o text

\* The records a writer is given: dicts over its declared fields (the fetch
\* functions build no other key); at most one field holds None or is not there.
RecordsOf(writer) ==
    UNION {{[k \in FieldSet(writer) |-> Value(tag, k)]}
           \cup {[k \in FieldSet(writer) |-> IF k = f THEN <<"None">> ELSE Value(tag, k)] :
                    f \in FieldSet(writer)}
           \cup {[k \in FieldSet(writer) \ {f} |-> Value(tag, k)] : f \in FieldSet(writer)} :
           tag \in {"a", "b"}}

\* What the csv writer puts in a cell: str(value), and nothing for None.
CellOf_Repr(value) == IF value = <<"None">> THEN value ELSE Text(value)
CellOf(value) == IF value = <<"None">> THEN <<>> ELSE Text(value)

\* csv.DictWriter.writerow(rowdict): rowdict.get(key, restval) for key in
\* fieldnames, restval = "".
DictWriterRow_NoRestval(fieldnames, rowdict) ==
    LET Held(k) == k \in DOMAIN rowdict
        held == SelectSeq(fieldnames, Held)
    IN  [j \in 1..Len(held) |-> CellOf(rowdict[held[j]])]
DictWriterRow(fieldnames, rowdict) ==
    [j \in 1..Len(fieldnames) |->
        CellOf(IF fieldnames[j] \in DOMAIN rowdict THEN rowdict[fieldnames[j]]
               ELSE StrValue(<<>>))]

\* csv.DictReader of the standard library on the file: the first line gives the
\* field names, every other line a dict of strings; a field the line is too
\* short for is None.
DictReaderRows(lines) ==
    [i \in 1..(Len(lines) - 1) |->
        [k \in {lines[1][j] : j \in 1..Len(lines[1])} |->
            LET j == CHOOSE n \in 1..Len(lines[1]) : lines[1][n] = k
            IN  IF j <= Len(lines[i + 1]) THEN StrValue(lines[i + 1][j]) ELSE <<"None">>]]

\* save_csv passes {k: r.get(k) for k in fieldnames}, the two others pass r.
RowDict(writer, r) ==
    IF writer = "save_csv"
    THEN [k \in FieldSet(writer) |-> IF k \in DOMAIN r THEN r[k] ELSE <<"None">>]
    ELSE r

CsvIdle ==
    /\ csv_pc = "idle"
    /\ csv_writer = "none"
    /\ csv_rows = <<>>
    /\ csv_i = 0
    /\ csv_out = <<>>
    /\ csv_read = <<>>

\* The writer opens the file and writes the header.
CSV_Open ==
    /\ script = "csv"
    /\ csv_pc = "called"
    /\ csv_out' = <<Fieldnames(csv_writer)>>
    /\ csv_pc' = "rows"
    /\ UNCHANGED <<script, goldvars, procvars, estvars, ratevars, writevars, savars, fngvars, avvars, earnvars, listvars, tweetvars, poolvars,
                   batchvars, csv_writer, csv_rows, csv_i, csv_read>>

\* for r in rows: writer.writerow(...)
CSV_WriteRow ==
    /\ script = "csv"
    /\ csv_pc = "rows"
    /\ csv_i < Len(csv_rows)
    /\ csv_out' = Append(csv_out, DictWriterRow(Fieldnames(csv_writer),
                                                RowDict(csv_writer, csv_rows[csv_i + 1])))
    /\ csv_i' = csv_i + 1
    /\ UNCHANGED <<script, goldvars, procvars, estvars, ratevars, writevars, savars, fngvars, avvars, earnvars, listvars, tweetvars, poolvars,
                   batchvars, csv_pc, csv_writer, csv_rows, csv_read>>

\* The loop is over, the with block closes the file.
CSV_Close ==
    /\ script = "csv"
    /\ csv_pc = "rows"
    /\ csv_i = Len(csv_rows)
    /\ csv_pc' = "closed"
    /\ UNCHANGED <<script, goldvars, procvars, estvars, ratevars, writevars, savars, fngvars, avvars, earnvars, listvars, tweetvars, poolvars,
                   batchvars, csv_writer, csv_rows, csv_i, csv_out, csv_read>>

\* The file is read back with csv.DictReader.
CSV_Read ==
    /\ script = "csv"
    /\ csv_pc = "closed"
    /\ csv_read' = DictReaderRows(csv_out)
    /\ csv_pc' = "read"
    /\ UNCHANGED <<script, goldvars, procvars, estvars, ratevars, writevars, savars, fngvars, avvars, earnvars, listvars, tweetvars,
                   poolvars, batchvars, csv_writer, csv_rows, csv_i, csv_out>>

CsvNext == CSV_Open \/ CSV_WriteRow \/ CSV_Close \/ CSV_Read

(***************************************************************************)
(* The output files: the CSV writers, save_tweets, and the transcript      *)
(* files of the Seeking Alpha main, writing one path several times         *)
(***************************************************************************)
MaxWrites == 2      \* most writes of the path

FileWriters == Writers \cup {"save_tweets", "transcript"}

\* What is written: for a CSV writer a list of records, for save_tweets a list
\* of tweets that is not empty (process_single_user saves nothing otherwise),
\* for a transcript the paragraphs of the text (none: the empty string).
RecordSets(writer) ==
    IF writer \in Writers
    THEN SeqsUpTo({[k \in FieldSet(writer) |-> Value(tag, k)] : tag \in {"a", "b"}},
                  MaxWrites)
    ELSE IF writer = "save_tweets"
    THEN SeqsUpTo({<<"t1">>, <<"t2">>}, MaxWrites) \ {<<>>}
    ELSE SeqsUpTo({<<"p1">>, <<"p2">>}, MaxWrites)

\* The content of the file once the write went through: the header and the
\* rows, the JSON array, the text.
Rendered(writer, records) ==
    IF writer \in Writers
    THEN <<Fieldnames(writer)>>
         \o [i \in 1..Len(records) |->
                DictWriterRow(Fieldnames(writer), RowDict(writer, records[i]))]
    ELSE IF writer = "save_tweets" THEN <<records>>
    ELSE records

\* open(filename, 'w') / path.open("w") / write_text: the file is truncated.
AfterOpen_Append(content) == content
AfterOpen(content) == <<>>

\* if out_path.exists() and out_path.stat().st_size > 0: continue
AlreadyThere(writer, file) == writer = "transcript" /\ file.exists /\ file.content # <<>>

Absent == [exists |-> FALSE, content |-> <<>>]

WriteIdle ==
    /\ wr_pc = "idle"
    /\ wr_writer = "none"
    /\ wr_records = <<>>
    /\ wr_done = FALSE
    /\ wr_file = Absent
    /\ wr_count = 0

\* The writer is called with records and opens the file.
WRITE_Open(records) ==
    /\ script = "write"
    /\ wr_pc = "idle"
    /\ wr_count < MaxWrites
    /\ ~AlreadyThere(wr_writer, wr_file)
    /\ wr_records' = records
    /\ wr_done' = FALSE
    /\ wr_file' = [exists |-> TRUE, content |-> AfterOpen(wr_file.content)]
    /\ wr_count' = wr_count + 1
    /\ wr_pc' = "open"
    /\ UNCHANGED <<script, goldvars, procvars, estvars, ratevars, savars, fngvars, avvars, earnvars, listvars, tweetvars, poolvars,
                   batchvars, csvvars, wr_writer>>

\* The Seeking Alpha main finds the transcript file there and not empty: it
\* goes on with the next row and writes nothing.
WRITE_Skip ==
    /\ script = "write"
    /\ wr_pc = "idle"
    /\ wr_count < MaxWrites
    /\ AlreadyThere(wr_writer, wr_file)
    /\ wr_count' = wr_count + 1
    /\ UNCHANGED <<script, goldvars, procvars, estvars, ratevars, savars, fngvars, avvars, earnvars, listvars, tweetvars, poolvars,
                   batchvars, csvvars, wr_pc, wr_writer, wr_records, wr_done, wr_file>>

\* The content is written and the file closed (ok), or the write raises and
\* leaves the file as it was opened.
WRITE_Body(ok) ==
    /\ script = "write"
    /\ wr_pc = "open"
    /\ IF ok
       THEN wr_file' = [wr_file EXCEPT !.content = @ \o Rendered(wr_writer, wr_records)]
       ELSE UNCHANGED wr_file
    /\ wr_done' = ok
    /\ wr_pc' = "idle"
    /\ UNCHANGED <<script, goldvars, procvars, estvars, ratevars, savars, fngvars, avvars, earnvars, listvars, tweetvars, poolvars,
                   batchvars, csvvars, wr_writer, wr_records, wr_count>>

WriteNext ==
    \/ \E records \in RecordSets(wr_writer) : WRITE_Open(records)
    \/ WRITE_Skip
    \/ \E ok \in BOOLEAN : WRITE_Body(ok)

(***************************************************************************)
(* Seeking Alpha: _rate_limited_get called by two threads at once          *)
(***************************************************************************)
MaxClock == 6       \* the clock stops there

Threads == {"t1", "t2"}

RateIdle ==
    /\ rl_now = 0
    /\ rl_marker = 0
    /\ rl_pc = [t \in Threads |-> "idle"]
    /\ rl_attempt = [t \in Threads |-> 0]
    /\ rl_wake = [t \in Threads |-> 0]
    /\ rl_lastIssue = None
    /\ rl_gap = None

\* The clock advances; nothing in the function holds it back.
RL_Tick ==
    /\ script = "rate"
    /\ rl_now < MaxClock
    /\ rl_now' = rl_now + 1
    /\ UNCHANGED <<script, goldvars, procvars, estvars, savars, fngvars, avvars, earnvars, listvars, tweetvars, poolvars,
                   batchvars, csvvars, writevars, rl_marker, rl_pc, rl_attempt, rl_wake,
                   rl_lastIssue, rl_gap>>

\* A thread calls _rate_limited_get: for attempt in range(1, MAX_RETRIES + 1).
RL_Call(t) ==
    /\ script = "rate"
    /\ rl_pc[t] = "idle"
    /\ rl_pc' = [rl_pc EXCEPT ![t] = "top"]
    /\ rl_attempt' = [rl_attempt EXCEPT ![t] = 1]
    /\ UNCHANGED <<script, goldvars, procvars, estvars, savars, fngvars, avvars, earnvars, listvars, tweetvars, poolvars,
                   batchvars, csvvars, writevars, rl_now, rl_marker, rl_wake, rl_lastIssue,
                   rl_gap>>

\* now = time.monotonic(); wait_for = ... - (now - _LAST_REQUEST_TIME): the
\* thread reads the clock and the marker, with no lock, and goes to sleep for
\* wait_for if it is positive.
RL_Read(t) ==
    /\ script = "rate"
    /\ rl_pc[t] = "top"
    /\ rl_wake' = [rl_wake EXCEPT ![t] =
                      IF WaitFor(rl_now, rl_marker) > 0
                      THEN rl_now + WaitFor(rl_now, rl_marker) ELSE rl_now]
    /\ rl_pc' = [rl_pc EXCEPT ![t] = "sleep"]
    /\ UNCHANGED <<script, goldvars, procvars, estvars, savars, fngvars, avvars, earnvars, listvars, tweetvars, poolvars,
                   batchvars, csvvars, writevars, rl_now, rl_marker, rl_attempt, rl_lastIssue,
                   rl_gap>>

\* The sleep is over (at its end or later): SESSION.get issues the request.
RL_Issue(t) ==
    /\ script = "rate"
    /\ rl_pc[t] = "sleep"
    /\ rl_now >= rl_wake[t]
    /\ rl_lastIssue' = rl_now
    /\ rl_gap' = IF rl_lastIssue = None THEN None ELSE rl_now - rl_lastIssue
    /\ rl_pc' = [rl_pc EXCEPT ![t] = "get"]
    /\ UNCHANGED <<script, goldvars, procvars, estvars, savars, fngvars, avvars, earnvars, listvars, tweetvars, poolvars,
                   batchvars, csvvars, writevars, rl_now, rl_marker, rl_attempt, rl_wake>>

\* The request completes: _LAST_REQUEST_TIME = time.monotonic() and return, or
\* the except branch (raise at the last attempt, the backoff sleep otherwise).
RL_Complete(t, ok) ==
    /\ script = "rate"
    /\ rl_pc[t] = "get"
    /\ IF ok
       THEN /\ rl_marker' = rl_now
            /\ rl_pc' = [rl_pc EXCEPT ![t] = "returned"]
            /\ UNCHANGED rl_wake
       ELSE /\ rl_marker' = MarkerAfterFailure(rl_marker, rl_now)
            /\ IF rl_attempt[t] = MAX_RETRIES
               THEN rl_pc' = [rl_pc EXCEPT ![t] = "raised"] /\ UNCHANGED rl_wake
               ELSE /\ rl_pc' = [rl_pc EXCEPT ![t] = "backoff"]
                    /\ rl_wake' = [rl_wake EXCEPT ![t] = rl_now + SABackoff(rl_attempt[t])]
    /\ UNCHANGED <<script, goldvars, procvars, estvars, savars, fngvars, avvars, earnvars, listvars, tweetvars, poolvars,
                   batchvars, csvvars, writevars, rl_now, rl_attempt, rl_lastIssue, rl_gap>>

\* The backoff sleep is over: the next attempt.
RL_Again(t) ==
    /\ script = "rate"
    /\ rl_pc[t] = "backoff"
    /\ rl_now >= rl_wake[t]
    /\ rl_attempt' = [rl_attempt EXCEPT ![t] = @ + 1]
    /\ rl_pc' = [rl_pc EXCEPT ![t] = "top"]
    /\ UNCHANGED <<script, goldvars, procvars, estvars, savars, fngvars, avvars, earnvars, listvars, tweetvars, poolvars,
                   batchvars, csvvars, writevars, rl_now, rl_marker, rl_wake, rl_lastIssue,
                   rl_gap>>

RateNext ==
    \/ RL_Tick
    \/ \E t \in Threads : RL_Call(t)
    \/ \E t \in Threads : RL_Read(t)
    \/ \E t \in Threads : RL_Issue(t)
    \/ \E t \in Threads, ok \in BOOLEAN : RL_Complete(t, ok)
    \/ \E t \in Threads : RL_Again(t)

(***************************************************************************)
(* Alpha Vantage earnings: fetch_estimates                                 *)
(***************************************************************************)
MaxItems == 1       \* most items of one array of the estimates payload

\* START_DATE of the earnings script
EARN_START_DATE == <<2023, 1, 1>>

\* The date field of an item (fiscalDateEnding, or date in the estimates array):
\* the day before START_DATE, START_DATE, a text that is no date, and <<>> for a
\* field that is missing or empty.
EstDateFields ==
    {<<2, 0, 2, 2, 1, 2, 3, 1>>, <<2, 0, 2, 3, 0, 1, 0, 1>>, <<2, 0, 2, 3, 0, 2, 3, 0>>, <<>>}

\* The value of a top-level key: the key is absent, null, or an array of items.
EstValues ==
    {[tag |-> "absent", items |-> <<>>], [tag |-> "null", items |-> <<>>]}
    \cup {[tag |-> "array", items |-> items] : items \in SeqsUpTo(EstDateFields, MaxItems)}

EstPayloads ==
    [quarterlyEarningsEstimates : EstValues, quarterlyRevenueEstimates : EstValues,
     estimates : EstValues]

\* data.get(key, []) or []
EstItems(value) == IF value.tag = "array" THEN value.items ELSE <<>>

\* try: fiscal_date = parse_date(...) except Exception: continue
\* if fiscal_date < START_DATE: continue
QuarterlyRows(items) ==
    LET Kept(text) == IsIsoDate(text) /\ ~DateLt(StrToDate(text), EARN_START_DATE)
    IN  SelectSeq(items, Kept)

\* keep = True; if item.get("date"): keep = parse_date(item["date"]) >= START_DATE,
\* and keep stays True when parse_date raises.
TrendingRows(items) ==
    LET Kept(text) ==
            text = <<>> \/ ~IsIsoDate(text) \/ DateLeq(EARN_START_DATE, StrToDate(text))
    IN  SelectSeq(items, Kept)

\* if not eps_rows and not rev_rows and "estimates" not in data: raise RuntimeError
EstUnexpected(rows, payload) ==
    rows.eps = <<>> /\ rows.rev = <<>> /\ payload.estimates.tag = "absent"

NoEstPayload ==
    [quarterlyEarningsEstimates |-> [tag |-> "absent", items |-> <<>>],
     quarterlyRevenueEstimates |-> [tag |-> "absent", items |-> <<>>],
     estimates |-> [tag |-> "absent", items |-> <<>>]]
NoEstRows == [eps |-> <<>>, rev |-> <<>>, trending |-> <<>>]

EstIdle ==
    /\ est_pc = "idle"
    /\ est_payload = NoEstPayload
    /\ est_rows = NoEstRows
    /\ est_err = "none"

\* urlopen(...), resp.read(), json.loads(body): the request fails, the body is no
\* JSON, or data is the payload.
EST_Request(outcome) ==
    /\ script = "est"
    /\ est_pc = "called"
    /\ IF outcome = "json"
       THEN est_pc' = "payload" /\ UNCHANGED est_err
       ELSE est_pc' = "raised" /\ est_err' = outcome
    /\ UNCHANGED <<script, goldvars, procvars, ratevars, writevars, csvvars, batchvars, poolvars, tweetvars, listvars,
                   savars, fngvars, avvars, earnvars, est_payload, est_rows>>

\* The three loops over the arrays.
EST_Parse ==
    /\ script = "est"
    /\ est_pc = "payload"
    /\ est_rows' = [eps |-> QuarterlyRows(EstItems(est_payload.quarterlyEarningsEstimates)),
                    rev |-> QuarterlyRows(EstItems(est_payload.quarterlyRevenueEstimates)),
                    trending |-> TrendingRows(EstItems(est_payload.estimates))]
    /\ est_pc' = "parsed"
    /\ UNCHANGED <<script, goldvars, procvars, ratevars, writevars, csvvars, batchvars, poolvars, tweetvars, listvars,
                   savars, fngvars, avvars, earnvars, est_payload, est_err>>

\* The check of the known shapes, and the return.
EST_Validate ==
    /\ script = "est"
    /\ est_pc = "parsed"
    /\ IF EstUnexpected(est_rows, est_payload)
       THEN est_pc' = "raised" /\ est_err' = "unexpected"
       ELSE est_pc' = "valid" /\ UNCHANGED est_err
    /\ UNCHANGED <<script, goldvars, procvars, ratevars, writevars, csvvars, batchvars, poolvars, tweetvars, listvars,
                   savars, fngvars, avvars, earnvars, est_payload, est_rows>>

EstNext ==
    \/ \E outcome \in {"URLError", "JSONDecodeError", "json"} : EST_Request(outcome)
    \/ EST_Parse
    \/ EST_Validate

(***************************************************************************)
(* The specifications                                                      *)
(***************************************************************************)
ListInit == script = "list" /\ SAIdle /\ FNGIdle /\ AVIdle /\ EarnIdle /\ ListIdle /\ TweetIdle /\ PoolIdle /\ BatchIdle /\ CsvIdle /\ WriteIdle /\ RateIdle /\ EstIdle /\ ProcIdle /\ GoldIdle

SpecList == ListInit /\ [][ListNext]_vars

\* The two crawls: the listing pages of Seeking Alpha and the tweet pages of X.
CrawlInit ==
    /\ script \in {"list", "tweets"}
    /\ SAIdle /\ FNGIdle /\ AVIdle /\ EarnIdle /\ ListIdle /\ TweetIdle /\ PoolIdle /\ BatchIdle /\ CsvIdle /\ WriteIdle /\ RateIdle /\ EstIdle /\ ProcIdle /\ GoldIdle

CrawlNext == ListNext \/ TweetNext

SpecCrawl == CrawlInit /\ [][CrawlNext]_vars

\* The worker pool of the tweet batch.
PoolInit ==
    /\ script = "pool"
    /\ SAIdle /\ FNGIdle /\ AVIdle /\ EarnIdle /\ ListIdle /\ TweetIdle /\ PoolIdle /\ BatchIdle /\ CsvIdle /\ WriteIdle /\ RateIdle /\ EstIdle /\ ProcIdle /\ GoldIdle

SpecPool == PoolInit /\ [][PoolNext]_vars

\* The main functions that loop over entities.
BatchInit ==
    /\ script = "batch"
    /\ SAIdle /\ FNGIdle /\ AVIdle /\ EarnIdle /\ ListIdle /\ TweetIdle /\ PoolIdle /\ BatchIdle /\ CsvIdle /\ WriteIdle /\ RateIdle /\ EstIdle /\ ProcIdle /\ GoldIdle

SpecBatch == BatchInit /\ [][BatchNext]_vars

\* The CSV writers, called with a list of up to MaxRecords records.
CsvInit ==
    /\ script = "csv"
    /\ SAIdle /\ FNGIdle /\ AVIdle /\ EarnIdle /\ ListIdle /\ TweetIdle /\ PoolIdle /\ BatchIdle /\ WriteIdle /\ RateIdle /\ EstIdle /\ ProcIdle /\ GoldIdle
    /\ csv_pc = "called"
    /\ csv_writer \in Writers
    /\ csv_rows \in SeqsUpTo(RecordsOf(csv_writer), MaxRecords)
    /\ csv_i = 0
    /\ csv_out = <<>>
    /\ csv_read = <<>>

SpecCsv == CsvInit /\ [][CsvNext]_vars

\* The output files: the path holds nothing, an empty file, or what an earlier
\* run of the same writer wrote.
WriteInit ==
    /\ script = "write"
    /\ SAIdle /\ FNGIdle /\ AVIdle /\ EarnIdle /\ ListIdle /\ TweetIdle /\ PoolIdle /\ BatchIdle /\ CsvIdle /\ RateIdle /\ EstIdle /\ ProcIdle /\ GoldIdle
    /\ wr_pc = "idle"
    /\ wr_writer \in FileWriters
    /\ wr_records = <<>>
    /\ wr_done = FALSE
    /\ wr_file \in {Absent, [exists |-> TRUE, content |-> <<>>]}
                   \cup {[exists |-> TRUE, content |-> Rendered(wr_writer, r)] :
                            r \in RecordSets(wr_writer)}
    /\ wr_count = 0

SpecWrite == WriteInit /\ [][WriteNext]_vars

\* _rate_limited_get called by two threads.
RateInit ==
    /\ script = "rate"
    /\ SAIdle /\ FNGIdle /\ AVIdle /\ EarnIdle /\ ListIdle /\ TweetIdle /\ PoolIdle /\ BatchIdle /\ CsvIdle /\ WriteIdle /\ EstIdle /\ ProcIdle /\ GoldIdle
    /\ rl_now \in 0..MaxStart
    /\ rl_marker = 0
    /\ rl_pc = [t \in Threads |-> "idle"]
    /\ rl_attempt = [t \in Threads |-> 0]
    /\ rl_wake = [t \in Threads |-> 0]
    /\ rl_lastIssue = None
    /\ rl_gap = None

SpecRate == RateInit /\ [][RateNext]_vars

\* fetch_estimates, on every payload.
EstInit ==
    /\ script = "est"
    /\ SAIdle /\ FNGIdle /\ AVIdle /\ EarnIdle /\ ListIdle /\ TweetIdle /\ PoolIdle /\ BatchIdle /\ CsvIdle /\ WriteIdle /\ RateIdle /\ ProcIdle /\ GoldIdle
    /\ est_pc = "called"
    /\ est_payload \in EstPayloads
    /\ est_rows = NoEstRows
    /\ est_err = "none"

SpecEst == EstInit /\ [][EstNext]_vars

\* The loops, each step of which is taken once it can be: an HTTP call returns
\* or raises, a sleep ends, a worker thread that has a task runs it.
LiveInit ==
    /\ script \in {"av", "list", "tweets", "pool"}
    /\ SAIdle /\ FNGIdle /\ AVIdle /\ EarnIdle /\ ListIdle /\ TweetIdle /\ PoolIdle /\ BatchIdle /\ CsvIdle /\ WriteIdle /\ RateIdle /\ EstIdle /\ ProcIdle /\ GoldIdle

LiveNext == AVNext \/ ListNext \/ TweetNext \/ PoolNext

SpecLive == LiveInit /\ [][LiveNext]_vars /\ WF_vars(LiveNext)

Init ==
    \/ SAInit /\ FNGIdle /\ AVIdle /\ EarnIdle /\ ListIdle /\ TweetIdle /\ PoolIdle /\ BatchIdle /\ CsvIdle /\ WriteIdle /\ RateIdle /\ EstIdle /\ ProcIdle /\ GoldIdle
    \/ script = "fng" /\ SAIdle /\ FNGIdle /\ AVIdle /\ EarnIdle /\ ListIdle /\ TweetIdle /\ PoolIdle /\ BatchIdle /\ CsvIdle /\ WriteIdle /\ RateIdle /\ EstIdle /\ ProcIdle /\ GoldIdle
    \/ script = "av" /\ SAIdle /\ FNGIdle /\ AVIdle /\ EarnIdle /\ ListIdle /\ TweetIdle /\ PoolIdle /\ BatchIdle /\ CsvIdle /\ WriteIdle /\ RateIdle /\ EstIdle /\ ProcIdle /\ GoldIdle
    \/ script = "earn" /\ SAIdle /\ FNGIdle /\ AVIdle /\ EarnIdle /\ ListIdle /\ TweetIdle /\ PoolIdle /\ BatchIdle /\ CsvIdle /\ WriteIdle /\ RateIdle /\ EstIdle /\ ProcIdle /\ GoldIdle

Next == SANext \/ FNGNext \/ AVNext \/ EarnNext

Spec == Init /\ [][Next]_vars

(***************************************************************************)
(* The parsing alone: a fetch_* function whose first request returned a     *)
(* payload that holds its key, and main of fng_fetch.py once fetch_all_fng *)
(* has returned, on series and records of up to MaxEntries entries.        *)
(***************************************************************************)
ValidPayload == [kind |-> "json", status |-> 200, note |-> "absent", info |-> "absent",
                 errmsg |-> "absent", key |-> TRUE, meta |-> TRUE]

ParseInit ==
    \/ /\ script = "av" /\ SAIdle /\ FNGIdle /\ EarnIdle /\ ListIdle /\ TweetIdle /\ PoolIdle /\ BatchIdle /\ CsvIdle /\ WriteIdle /\ RateIdle /\ EstIdle /\ ProcIdle /\ GoldIdle
       /\ av_pc = "valid"
       /\ av_fn \in AVFunctions
       /\ av_series \in SeriesOf(av_fn, MaxEntries)
       /\ av_max_retries = 6
       /\ av_attempt = 1
       /\ av_backoff = AV_FIRST_BACKOFF
       /\ av_gets = 1
       /\ av_delays = <<>>
       /\ av_firstNote = "none"
       /\ av_resp = ValidPayload
       /\ av_payload = ValidPayload
       /\ av_rows = <<>>
       /\ av_err = NoAVErr
    \/ /\ script = "fng" /\ SAIdle /\ AVIdle /\ EarnIdle /\ ListIdle /\ TweetIdle /\ PoolIdle /\ BatchIdle /\ CsvIdle /\ WriteIdle /\ RateIdle /\ EstIdle /\ ProcIdle /\ GoldIdle
       /\ fng_pc = "valid"
       /\ \E args \in FNGArgs :
             fng_start = StrToDate(args.start) /\ fng_end = StrToDate(args.end)
       /\ fng_records \in SeqsUpTo(FNGRecords, MaxEntries)
       /\ fng_retries = 3
       /\ fng_backoff = <<8, 5>>
       /\ fng_attempt = 0
       /\ fng_gets = 1
       /\ fng_delays = <<>>
       /\ fng_last_err = "none"
       /\ fng_firstErr = "none"
       /\ fng_lastOutcome = "dict_with_data"
       /\ fng_data = "dict_with_data"
       /\ fng_err = NoErr
       /\ fng_rows = <<>>

ParseNext == AV_Parse \/ FNG_Filter

SpecParse == ParseInit /\ [][ParseNext]_vars

(***************************************************************************)
(* Properties                                                              *)
(***************************************************************************)

\* C1: no HTTP GET of _rate_limited_get is issued less than
\* MIN_SECONDS_BETWEEN_REQUESTS after the completion of the previous HTTP GET of
\* the process, failed attempts included.
C1_MinSpacing == sa_gap # None => sa_gap >= MIN_SECONDS_BETWEEN_REQUESTS

\* The spec's taxonomy of transient failures, for _request_with_retries: a network
\* error, a non-2xx status, a throttling signal in the body.
AVTransient(r) ==
    \/ r.kind = "neterr"
    \/ r.kind \in {"nonjson", "json"} /\ r.status # 200
    \/ r.kind = "json" /\ (Truthy(r.note) \/ Truthy(r.info))

FracLeq(x, y) == x[1] * y[2] <= y[1] * x[2]

NonDecreasing(d) == \A i \in 1..(Len(d) - 1) : d[i] <= d[i + 1]

C4_MarkerOnlyOnSuccess ==
    [][/\ LAST_REQUEST_TIME' # LAST_REQUEST_TIME => (sa_pc = "get" /\ sa_pc' = "returned")
       /\ (sa_pc = "get" /\ sa_pc' \in {"check", "raised"})
              => LAST_REQUEST_TIME' = LAST_REQUEST_TIME]_vars

C4_Witness ==
    /\ sa_pc = "raised"
    /\ LAST_REQUEST_TIME > 0
    /\ sa_prevEnd > LAST_REQUEST_TIME

C6_LastCause ==
    /\ (fng_pc = "raised" /\ fng_lastOutcome \in FNGCaught)
           => (fng_err.type = "RuntimeError" /\ fng_err.cause = fng_lastOutcome)
    /\ sa_pc = "raised" => sa_err = sa_lastCause
    /\ (av_pc = "raised" /\ av_resp.kind = "json" /\ (Truthy(av_resp.note) \/ Truthy(av_resp.info)))
           => /\ av_err.type = "AlphaVantageError"
              /\ av_err.msg = (IF Truthy(av_resp.note) THEN av_resp.note ELSE av_resp.info)

C6_Witness ==
    /\ fng_pc = "raised"
    /\ fng_err.type = "RuntimeError"
    /\ fng_gets = 3
    /\ fng_firstErr # fng_err.cause

\* A response that is structurally wrong: not parseable, or (not a throttling
\* signal and) carrying Error Message or lacking the expected key.
AVStructurallyWrong(r) ==
    \/ r.kind = "nonjson"
    \/ /\ r.kind = "json"
       /\ ~(Truthy(r.note) \/ Truthy(r.info))
       /\ r.errmsg # "absent" \/ ~r.key

FNGUnparseable == {"JSONDecodeError", "UnicodeDecodeError"}
FNGWrongShape == {"not_dict", "dict_without_data"}

\* C7 as stated: a structurally wrong response is never followed by another
\* request and never accepted, in the Alpha Vantage fetchers and in the Fear &
\* Greed fetcher.
C7_StructuralNotRetried ==
    /\ AVStructurallyWrong(av_resp) => av_pc \in {"payload", "raised"}
    /\ fng_lastOutcome \in (FNGUnparseable \cup FNGWrongShape)
           => fng_pc \in {"returned", "raised"}

\* C7 (amended): as stated for the Alpha Vantage fetchers, and in the Fear & Greed
\* fetcher for a body that is JSON of the wrong shape or is not UTF-8; a body that
\* is not valid JSON is retried there like a transient error, up to retries
\* requests.  The wrong response makes the fetch fail in its next step.
C7_WrongShapeNotRetried ==
    /\ [](AVStructurallyWrong(av_resp) => av_pc \in {"payload", "raised"})
    /\ [](fng_lastOutcome \in (FNGWrongShape \cup {"UnicodeDecodeError"})
              => fng_pc \in {"returned", "raised"})
    /\ []((fng_lastOutcome = "JSONDecodeError" /\ fng_pc = "raised")
              => fng_gets = fng_retries)
    /\ [][/\ (av_pc = "payload" /\ AVStructurallyWrong(av_resp))
                 => (av_pc' = "raised" /\ av_gets' = av_gets)
          /\ (fng_pc = "returned" /\ fng_lastOutcome \in FNGWrongShape)
                 => (fng_pc' = "raised" /\ fng_gets' = fng_gets)]_vars

C7_Witness ==
    /\ fng_pc = "raised"
    /\ fng_err.type = "ValueError"
    /\ fng_lastOutcome = "dict_without_data"
    /\ fng_gets = 1

InWindow(s) ==
    IsIsoDate(s) /\ DateLeq(START_DATE, StrToDate(s)) /\ DateLeq(StrToDate(s), END_DATE)
InFNGWindow(rec) ==
    /\ rec.kind = "int"
    /\ DateLeq(fng_start, to_utc_date_from_unix_seconds(rec.timestamp))
    /\ DateLeq(to_utc_date_from_unix_seconds(rec.timestamp), fng_end)

Occurrences(q, x) == Cardinality({i \in 1..Len(q) : q[i] = x})
SameEntries(q1, q2) ==
    /\ Len(q1) = Len(q2)
    /\ \A i \in 1..Len(q1) : Occurrences(q1, q1[i]) = Occurrences(q2, q1[i])
Ascending(rows) ==
    \A i, j \in 1..Len(rows) : i < j => StrLeq(rows[i].date, rows[j].date)
StrictlyAscending(rows) ==
    \A i, j \in 1..Len(rows) : i < j => StrLt(rows[i].date, rows[j].date)
DatedIn(e) == InWindow(e.date)
DatedInWithNumber(e) == InWindow(e.date) /\ e.value = "1.5"
StampOf(rec) == [date |-> isoformat(to_utc_date_from_unix_seconds(rec.timestamp)),
                 timestamp |-> rec.timestamp]
StampsOf(q) == [i \in 1..Len(q) |-> StampOf(q[i])]
RowStamps(rows) == [i \in 1..Len(rows) |-> [date |-> rows[i].date, timestamp |-> rows[i].timestamp]]

\* C9 as stated: the rows fetch_stock_daily, fetch_indicator and
\* filter_and_normalize_records return are exactly the entries of the payload whose
\* date lies in [start, end], ordered by date ascending.
C9_ExactlyInRange ==
    /\ (av_pc = "done" /\ av_fn \in {"fetch_stock_daily", "fetch_indicator"})
          => SameEntries(av_rows, SelectSeq(av_series, DatedIn)) /\ Ascending(av_rows)
    /\ fng_pc = "done"
          => /\ SameEntries(RowStamps(fng_rows), StampsOf(SelectSeq(fng_records, InFNGWindow)))
             /\ Ascending(fng_rows)

\* C9 (amended): fetch_stock_daily returns exactly the entries dated in [start,
\* end]; fetch_indicator returns those of them whose value parses as a number;
\* filter_and_normalize_records returns one row per day of [start, end] that has a
\* record with an integer timestamp, built from a record of that day whose
\* timestamp no other record of the day exceeds; all three in ascending date order.
C9_InRangeParsed ==
    /\ (av_pc = "done" /\ av_fn = "fetch_stock_daily")
          => SameEntries(av_rows, SelectSeq(av_series, DatedIn)) /\ Ascending(av_rows)
    /\ (av_pc = "done" /\ av_fn = "fetch_indicator")
          => SameEntries(av_rows, SelectSeq(av_series, DatedInWithNumber)) /\ Ascending(av_rows)
    /\ fng_pc = "done"
          => /\ StrictlyAscending(fng_rows)
             /\ \A i \in 1..Len(fng_rows) :
                   \E k \in 1..Len(fng_records) :
                      /\ InFNGWindow(fng_records[k])
                      /\ StampOf(fng_records[k]) = RowStamps(fng_rows)[i]
             /\ \A k \in 1..Len(fng_records) :
                   InFNGWindow(fng_records[k]) =>
                      \E i \in 1..Len(fng_rows) :
                         /\ fng_rows[i].date = StampOf(fng_records[k]).date
                         /\ fng_rows[i].timestamp >= fng_records[k].timestamp

\* C9 witness: fetch_indicator has returned two rows out of a series that also
\* holds an entry dated in the window whose value is not a number.
C9_Witness ==
    /\ script = "av" /\ av_pc = "done" /\ av_fn = "fetch_indicator"
    /\ Len(av_rows) = 2
    /\ av_rows[1].date # av_rows[2].date
    /\ \E i \in 1..Len(av_series) : InWindow(av_series[i].date) /\ av_series[i].value = "."

\* The dates of the earnings call transcripts of a page that carry one.
DatedItems(articles) ==
    {StrToDate(articles[i].date_text) : i \in
        {k \in 1..Len(articles) : articles[k].kind = "transcript" /\ IsIsoDate(articles[k].date_text)}}
\* The oldest item of the page is dated before START_DATE, and no item of the page
\* is dated in the window.
OldPage(articles) ==
    /\ \E d \in DatedItems(articles) : DateLt(d, SA_START_DATE)
    /\ \A d \in DatedItems(articles) :
          ~(DateLeq(SA_START_DATE, d) /\ DateLeq(d, SA_END_DATE))

\* C10: in list_earnings_call_transcripts_for_ticker, when the oldest item of page
\* N is dated before START_DATE and page N adds no record of the window, no page
\* after N is requested: no step of the loop starts from a state where the page
\* requested last was such a page.
C10_NoPageAfterOldPage ==
    [][(list_pc = "loop" /\ list_page > 1) => ~OldPage(list_articles)]_vars

\* C11: a crawl requests at most max_pages pages: the listing loop never requests
\* a page numbered above max_pages, and fetch_user_tweets never calls
\* get_user_tweets_page more than max_pages times, whatever the pages hold and
\* whatever cursors the server returns.
C11_AtMostMaxPages ==
    /\ [][(list_pc = "loop" /\ list_pc' # "idle") => list_page <= list_max_pages]_vars
    /\ [](list_page <= list_max_pages)
    /\ [](tw_calls <= tw_max_pages)
    /\ [][tw_calls' # tw_calls => (tw_calls' = tw_calls + 1 /\ tw_calls' <= tw_max_pages)]_vars

\* C11 witness: fetch_user_tweets has made max_pages = MaxPages calls, the last
\* response still naming a next cursor, and has stopped there.
C11_Witness ==
    /\ script = "tweets"
    /\ tw_pc = "returned"
    /\ tw_max_pages = MaxPages
    /\ tw_calls = MaxPages
    /\ tw_next \in Cursors

\* C12: the first page is requested with no cursor; every later page is requested
\* with the next_cursor_str of the response just before it; a response with no or
\* an empty next_cursor_str ends the loop with no further request.
C12_CursorChain ==
    /\ [](tw_calls = 1 => tw_sent = "null")
    /\ [][(tw_calls' = tw_calls + 1 /\ tw_calls >= 1)
              => (tw_next \in Cursors /\ tw_sent' = tw_next)]_vars
    /\ []((tw_calls >= 1 /\ tw_next \in {"absent", ""}) => tw_pc = "returned")
    /\ [][tw_pc = "returned" => tw_calls' = tw_calls]_vars

\* C12 witness: the third page has been requested with the cursor of the second
\* response, which differs from that of the first request after the first page.
C12_Witness ==
    /\ script = "tweets"
    /\ tw_calls = 3
    /\ tw_sent = "c2"
    /\ tw_next = "c1"
    /\ tw_pc = "loop"

\* The work items whose task failed: the future's result is False.
Failed == {i \in Items : pool_task[i] = "False"}

\* C13: in batch_fetch_tweets_parallel every user of the list is processed by
\* process_single_user exactly once (never twice while the pool runs, once when
\* the function ends), whatever the other tasks came to, and at the end
\* success_count + fail_count is the number of users and fail_count the number
\* of users whose task failed.
C13_EachOnceAndCounted ==
    /\ \A i \in Items : pool_runs[i] <= 1
    /\ pool_pc \in {"returned", "raised"} =>
          /\ \A i \in Items : pool_runs[i] = 1
          /\ success_count + fail_count = Len(pool_users)
          /\ fail_count = Cardinality(Failed)

\* Three users on two workers, the second one fails, the two others succeed.
C13_Witness ==
    /\ pool_pc = "returned"
    /\ Len(pool_users) = 3
    /\ pool_workers = 2
    /\ pool_task = <<"True", "False", "True">>
    /\ success_count = 2
    /\ fail_count = 1

\* C14: in worker-pool mode no two work items that run at the same time have
\* the same output file open for writing, and the files written by distinct
\* work items are distinct.
C14_DistinctFiles ==
    \A i \in Items : \A j \in Items :
        (i # j /\ pool_file[i] # "none" /\ pool_file[j] # "none") =>
            pool_file[i] # pool_file[j]

Entities == {i \in 1..Len(batch_plan) : batch_plan[i].entity}

\* C15: the earnings main returns exit code 0 exactly when no call raised for
\* any symbol; when a call raised for a symbol it returns a code other than 0,
\* and it returns only after a call was made for every symbol.
C15_ExitCodeTellsFailure ==
    (batch_main = "earnings" /\ batch_pc = "returned") =>
        /\ batch_exit = 0 <=> batch_failed = {}
        /\ batch_failed # {} => batch_exit \notin {None, 0}
        /\ batch_attempted = Entities

\* The first symbol fails, the second one is still fetched and written.
C15_Witness ==
    /\ batch_main = "earnings"
    /\ batch_pc = "returned"
    /\ batch_failed = {1}
    /\ batch_attempted = {1, 2}
    /\ batch_exit = 1
    /\ batch_files = 2

\* C16: in every batch script an entity's failure is caught at the batch level
\* and the entities after it are still processed: no run ends with the
\* exception of an entity, and a run that has ended has made a call for every
\* entity.
C16_FailureNeverEndsRun ==
    /\ batch_pc = "raised" => batch_failed = {}
    /\ (batch_pc \in {"returned", "raised"} /\ batch_failed # {}) =>
          batch_attempted = Entities

\* C17: in the FRED script with the placeholder as API key no request is made,
\* no file is written and no series is fetched, and the run has ended with
\* SystemExit once main was called.
C17_NoRequestWithoutKey ==
    (batch_main = "fred" /\ batch_key = <<PLACEHOLDER>>) =>
        /\ batch_requests = 0
        /\ batch_files = 0
        /\ batch_attempted = {}
        /\ batch_pc = "exit"
        /\ batch_exit = 1

C17_Witness ==
    /\ batch_main = "fred"
    /\ batch_key = <<PLACEHOLDER>>
    /\ batch_pc = "exit"
    /\ batch_requests = 0

\* The records of the payload that fall on the date of a row and in the window.
OnDateOf(row) ==
    {k \in 1..Len(fng_records) :
        InFNGWindow(fng_records[k]) /\ StampOf(fng_records[k]).date = row.date}
LastOf(S) == CHOOSE k \in S : \A m \in S : m <= k
Latest(S) == {k \in S : \A m \in S : fng_records[m].timestamp <= fng_records[k].timestamp}
BuiltFrom(row, rec) ==
    row.timestamp = rec.timestamp /\ row.value = FNGValue(rec.value)
OneRowPerDate(rows) ==
    \A i, j \in 1..Len(rows) : i # j => rows[i].date # rows[j].date

\* C18 as stated: filter_and_normalize_records returns at most one row per
\* calendar date, and the row of a date is built from the record that appears
\* last in the input among the records of that date.
C18_LastInInputKept ==
    fng_pc = "done" =>
        /\ OneRowPerDate(fng_rows)
        /\ \A i \in 1..Len(fng_rows) :
              /\ OnDateOf(fng_rows[i]) # {}
              /\ BuiltFrom(fng_rows[i], fng_records[LastOf(OnDateOf(fng_rows[i]))])

\* C18 (amended): filter_and_normalize_records returns at most one row per
\* calendar date, and the row of a date is built from the record with the
\* greatest timestamp among the records of that date, the last one in the input
\* among those that share the greatest timestamp.
C18_LatestTimestampKept ==
    fng_pc = "done" =>
        /\ OneRowPerDate(fng_rows)
        /\ \A i \in 1..Len(fng_rows) :
              /\ OnDateOf(fng_rows[i]) # {}
              /\ BuiltFrom(fng_rows[i], fng_records[LastOf(Latest(OnDateOf(fng_rows[i])))])

\* Two records of one date, the later one of the day first in the input: the
\* row carries the timestamp of the first.
C18_Witness ==
    /\ script = "fng" /\ fng_pc = "done"
    /\ Len(fng_rows) = 1
    /\ \E j, k \in OnDateOf(fng_rows[1]) :
          /\ j < k
          /\ fng_records[j].timestamp > fng_records[k].timestamp
          /\ fng_rows[1].timestamp = fng_records[j].timestamp

\* C19: in every series parser a record with an unparsable date or numeric
\* field is dropped and the other records are still returned: the fetch_*
\* functions never raise on an entry of the series and return exactly the
\* entries of the window whose date and numbers parse, and
\* filter_and_normalize_records returns no row whose value did not parse.
C19_MalformedRecordDropped ==
    /\ script = "av" => av_pc # "raised"
    /\ (script = "av" /\ av_pc = "done") =>
          SameEntries(av_rows, SelectSeq(av_series, DatedInWithNumber))
    /\ fng_pc = "done" => \A i \in 1..Len(fng_rows) : fng_rows[i].value # None

\* C20: the file a CSV writer has written holds the header, the declared fields
\* in their declared order, then one line per record in the order of the input,
\* whose cell of a field is the record's value of that field, and is empty
\* (<<>>) when the record does not hold the field or holds None for it.
C20_HeaderThenOneRowPerRecord ==
    csv_pc \in {"closed", "read"} =>
        /\ Len(csv_out) = 1 + Len(csv_rows)
        /\ csv_out[1] = Fieldnames(csv_writer)
        /\ \A i \in 1..Len(csv_rows) :
              /\ Len(csv_out[i + 1]) = Len(Fieldnames(csv_writer))
              /\ \A j \in 1..Len(Fieldnames(csv_writer)) :
                    LET k == Fieldnames(csv_writer)[j]
                        r == csv_rows[i]
                    IN  csv_out[i + 1][j] =
                           IF k \in DOMAIN r /\ r[k] # <<"None">> THEN <<r[k][2], r[k][3]>>
                           ELSE <<>>

\* write_csv has written two records, the first without its volume field, the
\* second with None as volume.
C20_Witness ==
    /\ csv_pc = "closed" /\ csv_writer = "write_csv"
    /\ Len(csv_rows) = 2
    /\ "volume" \notin DOMAIN csv_rows[1]
    /\ "volume" \in DOMAIN csv_rows[2] /\ csv_rows[2]["volume"] = <<"None">>
    /\ csv_rows[1]["date"] # csv_rows[2]["date"]
    /\ csv_out[2][8] = <<>> /\ csv_out[3][8] = <<>>

\* C21: every output write overwrites: once a write of a record set has gone
\* through, the file holds what that record set alone renders to, whatever the
\* file held before, so that a second write of the same records leaves the
\* file as the first one did.
C21_WriteOverwrites ==
    (wr_pc = "idle" /\ wr_done) =>
        wr_file = [exists |-> TRUE, content |-> Rendered(wr_writer, wr_records)]

\* write_csv has written a record set twice over a file that held other records.
C21_Witness ==
    /\ script = "write" /\ wr_pc = "idle" /\ wr_done
    /\ wr_writer = "write_csv"
    /\ wr_count = 2
    /\ Len(wr_records) = 2
    /\ Len(wr_file.content) = 3

\* A value as it comes back from the file when only numbers change, to their
\* string form.
Coerced(value) == IF value[1] = "num" THEN <<"str", value[2], value[3]>> ELSE value
\* The same, with None and a field the record does not hold read back as the
\* empty string.
ReadBackOf(r, k) == IF k \in DOMAIN r /\ r[k] # <<"None">> THEN Coerced(r[k]) ELSE <<"str">>

\* C22 as stated: the rows read back from the file a CSV writer wrote are as
\* many as the records, in the same order, and hold for every declared field
\* the value of the record, a number as its string form.
C22_RoundTrip ==
    csv_pc = "read" =>
        /\ Len(csv_read) = Len(csv_rows)
        /\ \A i \in 1..Len(csv_rows) : \A k \in FieldSet(csv_writer) :
              /\ k \in DOMAIN csv_rows[i]
              /\ csv_read[i][k] = Coerced(csv_rows[i][k])

\* C22 (amended): the rows read back are as many as the records, in the same
\* order, and hold for every declared field the value of the record, a number
\* as its string form, and the empty string where the record holds None or
\* does not hold the field.
C22_RoundTripButNone ==
    csv_pc = "read" =>
        /\ Len(csv_read) = Len(csv_rows)
        /\ \A i \in 1..Len(csv_rows) :
              /\ DOMAIN csv_read[i] = FieldSet(csv_writer)
              /\ \A k \in FieldSet(csv_writer) :
                    csv_read[i][k] = ReadBackOf(csv_rows[i], k)

\* save_csv wrote two records, the first with None as value, and the file was
\* read back: the value of the first row is the empty string, the timestamp of
\* the second the string form of the number.
C22_Witness ==
    /\ csv_pc = "read" /\ csv_writer = "save_csv"
    /\ Len(csv_rows) = 2
    /\ "value" \in DOMAIN csv_rows[1] /\ csv_rows[1]["value"] = <<"None">>
    /\ csv_read[1]["value"] = <<"str">>
    /\ csv_rows[2]["timestamp"] = <<"num", "b", "timestamp">>
    /\ csv_read[2]["timestamp"] = <<"str", "b", "timestamp">>

\* C23: when two threads call _rate_limited_get at the same time, no HTTP GET
\* is issued less than MIN_SECONDS_BETWEEN_REQUESTS after the GET issued before
\* it: the read of the marker, the wait, the request and the update of the
\* marker of one thread are not interleaved with those of the other.
C23_SpacingUnderConcurrency ==
    rl_gap # None => rl_gap >= MIN_SECONDS_BETWEEN_REQUESTS

\* C24: in the earnings, OHLCV and macro mains, main sleeps its rate-limit
\* interval (12 s, 15 s, 15 s) between any two requests in a row.
C24_RequestsPaced ==
    (batch_main \in {"earnings", "ohlcv", "macro"} /\ batch_minGap # None)
        => batch_minGap >= RateLimitSleep(batch_main)


\* C25: list_earnings_call_transcripts_for_ticker returns before page max_pages
\* only when the page fetched last has no article element, or has no record of
\* the window and an earnings call transcript dated before START_DATE; a page
\* with a record of the window, or with no dated earnings call transcript, ends
\* the crawl only as page max_pages.
C25_EarlyStopOnlyOnEmptyOrOldPage ==
    /\ []((list_pc = "returned" /\ list_page < list_max_pages)
            => (list_articles = <<>> \/ OldPage(list_articles)))
    /\ [][(/\ list_pc = "loop" /\ list_pc' = "returned"
           /\ list_articles' # <<>>
           /\ \/ DatedItems(list_articles') = {}
              \/ \E d \in DatedItems(list_articles') :
                    DateLeq(SA_START_DATE, d) /\ DateLeq(d, SA_END_DATE))
              => list_page = list_max_pages]_vars

\* C25 witness: page 1 gave a record of the window and the crawl went on; page 2
\* of 3 holds only a transcript dated before START_DATE, and the crawl stopped
\* there.
C25_Witness ==
    /\ script = "list"
    /\ list_pc = "returned"
    /\ list_max_pages = 3
    /\ list_page = 2
    /\ Len(list_records) >= 1
    /\ list_articles # <<>>
    /\ OldPage(list_articles)

\* C26: fetch_estimates raises 'Unexpected estimates response' only for a payload
\* with none of the keys quarterlyEarningsEstimates, quarterlyRevenueEstimates,
\* estimates; a payload with one of them passes, even when no row is kept.
C26_FailsOnlyWithoutExpectedKey ==
    (est_pc = "raised" /\ est_err = "unexpected")
        => /\ est_payload.quarterlyEarningsEstimates.tag = "absent"
           /\ est_payload.quarterlyRevenueEstimates.tag = "absent"
           /\ est_payload.estimates.tag = "absent"

\* C28: process_single_user returns True, which the batch counts as a success,
\* only when no page of the user's crawl raised; when a page raised, the user
\* is a failure and no file is saved for them.
C28_SuccessOnlyIfEveryPageFetched ==
    /\ ps_result = "True" => ~tw_failed
    /\ tw_failed => ps_file = None

\* The fetch calls of the OHLCV main for an asset, and those that raised exc.
FetchesOf(asset) == {i \in 1..Len(batch_fetches) : batch_fetches[i].asset = asset}
RaisedOn(asset, exc) == {i \in FetchesOf(asset) : batch_fetches[i].outcome = exc}

\* C27: GLD is fetched only after the XAU/USD fetch raised AlphaVantageError, and
\* once the OHLCV main is at its combined write GLD has been fetched if and only
\* if the XAU/USD fetch raised AlphaVantageError; the combined file holds NVDA,
\* KO, SPY, BTC, DOGE in that order, then one gold source: GLD when GLD was
\* fetched, with no XAU/USD record, and XAU/USD otherwise.
C27_OneGoldSource ==
    batch_main = "ohlcv" =>
        /\ FetchesOf("GLD") # {} => RaisedOn("XAU", "AlphaVantageError") # {}
        /\ (batch_pc = "loop" /\ ~IsAsset) =>
               (FetchesOf("GLD") # {} <=> RaisedOn("XAU", "AlphaVantageError") # {})
        /\ batch_combined.written =>
               /\ Len(batch_combined.sources) = 6
               /\ SubSeq(batch_combined.sources, 1, 5) = <<"NVDA", "KO", "SPY", "BTC", "DOGE">>
               /\ batch_combined.sources[6] =
                     (IF FetchesOf("GLD") # {} THEN "GLD" ELSE "XAU")

\* C27 witness: the XAU/USD fetch raised AlphaVantageError, GLD was fetched, and
\* the combined file is written with GLD as its gold source.
C27_Witness ==
    /\ batch_main = "ohlcv"
    /\ batch_pc = "returned"
    /\ RaisedOn("XAU", "AlphaVantageError") # {}
    /\ batch_combined = [written |-> TRUE,
                         sources |-> <<"NVDA", "KO", "SPY", "BTC", "DOGE", "GLD">>]

\* How far a work item of the pool is from its result.
TaskRank(task) ==
    CASE task = "unsubmitted" -> 4
      [] task = "queued" -> 3
      [] task = "running" -> 2
      [] task = "writing" -> 1
      [] OTHER -> 0

RECURSIVE RankSum(_)
RankSum(n) == IF n = 0 THEN 0 ELSE TaskRank(pool_task[n]) + RankSum(n - 1)

\* What batch_fetch_tweets_parallel has left to do: the steps of its tasks, the
\* futures as_completed has not yielded, its return.
PoolMeasure ==
    IF pool_pc # "pool" THEN 0
    ELSE RankSum(Len(pool_task)) + Cardinality(Items \ pool_collected) + 1

\* C29: every loop ends, each of its steps bringing it nearer to its end.  An
\* iteration of _request_with_retries leaves the loop or raises attempt by one,
\* and attempt never exceeds max_retries; an iteration of the listing loop or of
\* fetch_user_tweets leaves the loop or raises page by one, within max_pages;
\* every step of batch_fetch_tweets_parallel lowers what it has left to do, no
\* task ever goes back, and when the function has ended process_single_user has
\* run once for every user of the list and every future has its result.
C29_EveryRunTerminates ==
    /\ [](av_attempt <= av_max_retries /\ av_gets <= av_max_retries)
    /\ [][av_pc = "request" => (av_pc' # "request" \/ av_attempt' = av_attempt + 1)]_vars
    /\ [](list_page <= list_max_pages /\ tw_calls <= tw_max_pages)
    /\ [][(list_pc = "loop" /\ list_pc' = "loop") => list_page' = list_page + 1]_vars
    /\ [][(tw_pc = "loop" /\ tw_pc' = "loop")
              => (tw_page' = tw_page + 1 /\ tw_calls' = tw_calls + 1)]_vars
    /\ [](tw_pc = "loop" => tw_page <= tw_max_pages + 1)
    /\ [][pool_pc = "pool" => PoolMeasure' < PoolMeasure]_vars
    /\ [](PoolMeasure >= 0)
    /\ [](pool_pc \in {"returned", "raised"}
            => \A i \in Items : Finished(i) /\ pool_runs[i] = 1)

\* C29 witness: batch_fetch_tweets_parallel has returned for as many users as
\* there can be, on one worker, the tasks having run one after the other, the
\* first of them failed.
C29_Witness ==
    /\ script = "pool"
    /\ pool_pc = "returned"
    /\ Len(pool_users) = MaxUsers
    /\ pool_workers = 1
    /\ pool_task[1] = "False"
    /\ \A i \in Items : Finished(i) /\ pool_runs[i] = 1

====
